---- MODULE Spec2Model ----
(***************************************************************************)
(* Schema normalizer (schemaGenerator.service.js) and the junction-table   *)
(* rewrite of the SQL generator (sqlGenerator.service.js).                 *)
(*                                                                         *)
(* JavaScript strings are TLA+ strings, processed character by character.  *)
(* A JavaScript object is a record; a key that is absent or undefined is a *)
(* field outside the record's DOMAIN.                                      *)
(***************************************************************************)
EXTENDS Integers, Sequences, FiniteSets, TLC

(***************************************************************************)
(* String primitives                                                       *)
(***************************************************************************)
Char(s, i) == SubSeq(s, i, i)

UpperChars == "ABCDEFGHIJKLMNOPQRSTUVWXYZ"
LowerChars == "abcdefghijklmnopqrstuvwxyz"
DigitChars == "0123456789"

CharsOf(cs) == {Char(cs, i) : i \in 1..Len(cs)}
UpperSet == CharsOf(UpperChars)
LowerSet == CharsOf(LowerChars)
DigitSet == CharsOf(DigitChars)

IsUpper(c) == c \in UpperSet
IsLower(c) == c \in LowerSet
IsDigit(c) == c \in DigitSet
\* the regular expression class \s
IsSpace(c) == c \in {" ", "\t", "\n", "\r", "\f"}

LowerOf == [c \in UpperSet |->
              Char(LowerChars, CHOOSE i \in 1..Len(UpperChars) : Char(UpperChars, i) = c)]
UpperOf == [c \in LowerSet |->
              Char(UpperChars, CHOOSE i \in 1..Len(LowerChars) : Char(LowerChars, i) = c)]

toLowerChar(c) == IF IsUpper(c) THEN LowerOf[c] ELSE c
toUpperChar(c) == IF IsLower(c) THEN UpperOf[c] ELSE c

RECURSIVE toLowerCase(_)
toLowerCase(s) ==
    IF s = "" THEN ""
    ELSE toLowerChar(Char(s, 1)) \o toLowerCase(SubSeq(s, 2, Len(s)))

RECURSIVE toUpperCase(_)
toUpperCase(s) ==
    IF s = "" THEN ""
    ELSE toUpperChar(Char(s, 1)) \o toUpperCase(SubSeq(s, 2, Len(s)))

\* String.prototype.includes
includes(s, sub) ==
    \E i \in 1..(Len(s) - Len(sub) + 1) : SubSeq(s, i, i + Len(sub) - 1) = sub

\* String.prototype.endsWith
endsWith(s, sub) ==
    /\ Len(sub) <= Len(s)
    /\ SubSeq(s, Len(s) - Len(sub) + 1, Len(s)) = sub

\* s.replace(/([a-z])([A-Z])/g, '$1_$2')
RECURSIVE splitCamelCase(_)
splitCamelCase(s) ==
    IF Len(s) < 2 THEN s
    ELSE IF IsLower(Char(s, 1)) /\ IsUpper(Char(s, 2))
         THEN Char(s, 1) \o "_" \o Char(s, 2) \o splitCamelCase(SubSeq(s, 3, Len(s)))
         ELSE Char(s, 1) \o splitCamelCase(SubSeq(s, 2, Len(s)))

\* s.replace(/\s+/g, '_')
RECURSIVE replaceSpaces(_)
replaceSpaces(s) ==
    IF s = "" THEN ""
    ELSE IF IsSpace(Char(s, 1))
         THEN IF Len(s) >= 2 /\ IsSpace(Char(s, 2))
              THEN replaceSpaces(SubSeq(s, 2, Len(s)))
              ELSE "_" \o replaceSpaces(SubSeq(s, 2, Len(s)))
         ELSE Char(s, 1) \o replaceSpaces(SubSeq(s, 2, Len(s)))

\* s.replace(/[^a-z0-9_]/g, '')
RECURSIVE stripNonWord(_)
stripNonWord(s) ==
    IF s = "" THEN ""
    ELSE IF IsLower(Char(s, 1)) \/ IsDigit(Char(s, 1)) \/ Char(s, 1) = "_"
         THEN Char(s, 1) \o stripNonWord(SubSeq(s, 2, Len(s)))
         ELSE stripNonWord(SubSeq(s, 2, Len(s)))

\* s.replace(/^[0-9]/, '_$&')
prefixLeadingDigit(s) ==
    IF s # "" /\ IsDigit(Char(s, 1)) THEN "_" \o s ELSE s

\* String.prototype.substring(from, to) for 0 <= from <= to
substring(s, from, to) ==
    SubSeq(s, from + 1, IF to < Len(s) THEN to ELSE Len(s))

\* s.replace(/_/g, ' ')
RECURSIVE underscoresToSpaces(_)
underscoresToSpaces(s) ==
    IF s = "" THEN ""
    ELSE (IF Char(s, 1) = "_" THEN " " ELSE Char(s, 1))
         \o underscoresToSpaces(SubSeq(s, 2, Len(s)))

(***************************************************************************)
(* JavaScript object access                                                *)
(***************************************************************************)
Has(o, f) == f \in DOMAIN o
\* o.f for a string field, "" when the key is absent (both are falsy)
Str(o, f) == IF Has(o, f) THEN o[f] ELSE ""
\* !!o.f for a boolean field
Truthy(o, f) == Has(o, f) /\ o[f] = TRUE
\* o.f === true
IsTrue(o, f) == Has(o, f) /\ o[f] = TRUE
\* o.f !== false
NotFalse(o, f) == ~(Has(o, f) /\ o[f] = FALSE)
\* o.f || [] for an array field
Arr(o, f) == IF Has(o, f) THEN o[f] ELSE <<>>

\* Array.prototype.findIndex, 0 for "not found"
FindIndex(seq, P(_)) ==
    IF \E i \in 1..Len(seq) : P(seq[i])
    THEN CHOOSE i \in 1..Len(seq) : P(seq[i]) /\ \A j \in 1..(i - 1) : ~P(seq[j])
    ELSE 0

\* Array.prototype.some
Some(seq, P(_)) == \E i \in 1..Len(seq) : P(seq[i])

\* Array.prototype.filter
RECURSIVE FilterIdx(_, _, _)
FilterIdx(seq, keep, i) ==
    IF i > Len(seq) THEN <<>>
    ELSE (IF i \in keep THEN <<seq[i]>> ELSE <<>>) \o FilterIdx(seq, keep, i + 1)
Filter(seq, P(_)) == FilterIdx(seq, {i \in 1..Len(seq) : P(seq[i])}, 1)

\* Array.prototype.splice(at, del, ...ins) with a 1-based position
Splice(seq, at, del, ins) ==
    SubSeq(seq, 1, at - 1) \o ins \o SubSeq(seq, at + del, Len(seq))

(***************************************************************************)
(* schemaGenerator.service.js                                              *)
(***************************************************************************)
transformTableName(entityName) ==
    IF entityName = "" THEN "unnamed_table"
    ELSE prefixLeadingDigit(stripNonWord(replaceSpaces(toLowerCase(splitCamelCase(entityName)))))

inferDataType(attributeName) ==
    IF attributeName = "" THEN "VARCHAR(255)"
    ELSE LET name == toLowerCase(attributeName) IN
      IF name = "id" \/ endsWith(name, "_id") \/ endsWith(name, "id") THEN "INTEGER"
      ELSE IF includes(name, "uuid") \/ includes(name, "guid") THEN "VARCHAR(36)"
      ELSE IF includes(name, "date") \/ includes(name, "time") THEN "TIMESTAMP"
      ELSE IF \/ includes(name, "price") \/ includes(name, "cost")
              \/ includes(name, "amount") \/ includes(name, "fee")
              \/ includes(name, "salary") \/ includes(name, "budget") THEN "DECIMAL(10,2)"
      ELSE IF \/ includes(name, "is_") \/ includes(name, "has_") \/ name = "active"
              \/ name = "enabled" \/ name = "status" \/ includes(name, "_flag") THEN "BOOLEAN"
      ELSE IF \/ includes(name, "description") \/ includes(name, "content")
              \/ includes(name, "text") \/ includes(name, "comment")
              \/ includes(name, "notes") THEN "TEXT"
      ELSE IF includes(name, "email") THEN "VARCHAR(255)"
      ELSE IF includes(name, "password") \/ includes(name, "hash") THEN "VARCHAR(255)"
      ELSE IF \/ includes(name, "phone") \/ includes(name, "fax")
              \/ includes(name, "mobile") THEN "VARCHAR(20)"
      ELSE IF \/ includes(name, "url") \/ includes(name, "link")
              \/ includes(name, "website") THEN "VARCHAR(512)"
      ELSE IF includes(name, "code") \/ includes(name, "key") THEN "VARCHAR(50)"
      ELSE IF \/ includes(name, "count") \/ includes(name, "quantity")
              \/ includes(name, "number") \/ includes(name, "total")
              \/ includes(name, "age") THEN "INTEGER"
      ELSE IF \/ includes(name, "percent") \/ includes(name, "rate")
              \/ includes(name, "ratio") THEN "DECIMAL(5,2)"
      ELSE IF \/ includes(name, "image") \/ includes(name, "file")
              \/ includes(name, "avatar") \/ includes(name, "picture")
              \/ includes(name, "photo") THEN "VARCHAR(512)"
      ELSE IF includes(name, "json") \/ includes(name, "data") THEN "TEXT"
      ELSE IF \/ includes(name, "ip") \/ includes(name, "ipv4")
              \/ includes(name, "ipv6") THEN "VARCHAR(45)"
      ELSE IF includes(name, "color") THEN "VARCHAR(20)"
      ELSE IF includes(name, "currency") \/ includes(name, "language") THEN "VARCHAR(10)"
      ELSE "VARCHAR(255)"

\* the value null; it is falsy like "" and a missing key
null == "null"
Falsy(v) == v = "" \/ v = null

\* description.replace(/[^a-z0-9_\s]/g, '')
RECURSIVE stripNonWordOrSpace(_)
stripNonWordOrSpace(s) ==
    IF s = "" THEN ""
    ELSE IF \/ IsLower(Char(s, 1)) \/ IsDigit(Char(s, 1)) \/ Char(s, 1) = "_"
            \/ IsSpace(Char(s, 1))
         THEN Char(s, 1) \o stripNonWordOrSpace(SubSeq(s, 2, Len(s)))
         ELSE stripNonWordOrSpace(SubSeq(s, 2, Len(s)))

\* the object literals of the columns the normalizer synthesizes
idColumn ==
    [name |-> "id", dataType |-> "INTEGER", isPrimaryKey |-> TRUE,
     isForeignKey |-> FALSE, isNullable |-> FALSE, isUnique |-> TRUE,
     description |-> "Primary key"]

nameColumn ==
    [name |-> "name", dataType |-> "VARCHAR(255)", isPrimaryKey |-> FALSE,
     isForeignKey |-> FALSE, isNullable |-> FALSE, isUnique |-> FALSE,
     description |-> "Name field"]

createdAtColumn ==
    [name |-> "created_at", dataType |-> "TIMESTAMP", isPrimaryKey |-> FALSE,
     isForeignKey |-> FALSE, isNullable |-> FALSE,
     defaultValue |-> "CURRENT_TIMESTAMP", description |-> "Creation timestamp"]

updatedAtColumn ==
    [name |-> "updated_at", dataType |-> "TIMESTAMP", isPrimaryKey |-> FALSE,
     isForeignKey |-> FALSE, isNullable |-> FALSE,
     defaultValue |-> "CURRENT_TIMESTAMP", description |-> "Last update timestamp"]

\* copies key f of o into rec when o has it (a key holding undefined is no key)
WithOpt(rec, o, f) == IF Has(o, f) THEN (f :> o[f]) @@ rec ELSE rec

columnFromAttribute(attr) ==
    WithOpt(WithOpt(
      [name |-> IF Str(attr, "name") # ""
                THEN replaceSpaces(toLowerCase(attr.name))
                ELSE "unnamed_column",
       dataType |-> IF Str(attr, "dataType") # ""
                    THEN attr.dataType
                    ELSE inferDataType(Str(attr, "name")),
       isPrimaryKey |-> Truthy(attr, "isPrimaryKey"),
       isForeignKey |-> Truthy(attr, "isForeignKey"),
       isNullable |-> NotFalse(attr, "isNullable"),
       isUnique |-> Truthy(attr, "isUnique") \/ Truthy(attr, "isPrimaryKey"),
       isMultivalued |-> Truthy(attr, "isMultivalued"),
       isDerived |-> Truthy(attr, "isDerived"),
       isComposite |-> Truthy(attr, "isComposite"),
       description |-> IF Str(attr, "description") # ""
                       THEN attr.description
                       ELSE (IF Str(attr, "name") # "" THEN attr.name ELSE "Field")
                            \o " column"],
      attr, "defaultValue"), attr, "references")

generateColumnsFromAttributes(attributes) ==
    IF Len(attributes) = 0
    THEN <<idColumn, nameColumn, createdAtColumn, updatedAtColumn>>
    ELSE [i \in 1..Len(attributes) |-> columnFromAttribute(attributes[i])]

IsPK(col) == Truthy(col, "isPrimaryKey")
IsFK(col) == Truthy(col, "isForeignKey")

\* mutant of ensurePrimaryKey: no id column is synthesized
ensurePrimaryKey_skipped(columns) == columns

\* "Ensure primary key exists"
ensurePrimaryKey(columns) ==
    IF ~Some(columns, IsPK) THEN <<idColumn>> \o columns ELSE columns

\* "Ensure timestamp columns exist for all tables"
ensureTimestamps(columns) ==
    LET withCreated ==
          IF ~(\E i \in 1..Len(columns) : columns[i].name = "created_at")
          THEN Append(columns, createdAtColumn) ELSE columns
    IN IF ~(\E i \in 1..Len(withCreated) : withCreated[i].name = "updated_at")
       THEN Append(withCreated, updatedAtColumn) ELSE withCreated

\* the callback of entities.map in generateSchema; index is 0-based
tableFromEntity(entity, index) ==
    [name |-> transformTableName(Str(entity, "name")),
     columns |-> ensureTimestamps(ensurePrimaryKey(
                   generateColumnsFromAttributes(Arr(entity, "attributes")))),
     description |-> IF Str(entity, "description") # ""
                     THEN entity.description
                     ELSE "Table for " \o (IF Has(entity, "name") THEN entity.name
                                           ELSE "undefined"),
     isWeakEntity |-> IsTrue(entity, "isWeakEntity"),
     isLookupTable |-> IsTrue(entity, "isLookupTable"),
     assumptionsMade |-> Arr(entity, "assumptionsMade"),
     position |-> [x |-> 100 + (index % 3) * 350,
                   y |-> 100 + (index \div 3) * 250,
                   isDraggable |-> TRUE]]

\* table.columns.find(c => c.isPrimaryKey) || fallback
primaryKeyOf(table, fallback) ==
    LET i == FindIndex(table.columns, IsPK)
    IN IF i = 0 THEN fallback ELSE table.columns[i]

addForeignKey(tables, t, referencedTable, referencedColumn) ==
    LET fkName == toLowerCase(referencedTable.name) \o "_id" IN
    IF \E i \in 1..Len(tables[t].columns) : tables[t].columns[i].name = fkName
    THEN tables
    ELSE [tables EXCEPT ![t].columns = Append(@,
           [name |-> fkName,
            dataType |-> IF Str(referencedColumn, "dataType") # ""
                         THEN referencedColumn.dataType ELSE "INTEGER",
            isPrimaryKey |-> FALSE,
            isForeignKey |-> TRUE,
            isNullable |-> TRUE,
            isUnique |-> FALSE,
            references |-> [table |-> referencedTable.name,
                            column |-> referencedColumn.name,
                            onDelete |-> "CASCADE",
                            onUpdate |-> "CASCADE"],
            description |-> "Foreign key reference to " \o referencedTable.name])]

\* s and t are the positions of sourceTable and targetTable in tables; the
\* result holds the relationship object (its type may have been assigned)
\* and the tables
setupForeignKeys(relationship, tables, s, t, sourceColumn, targetColumn) ==
    LET rel == IF Str(relationship, "type") = ""
               THEN ("type" :> "ONE_TO_MANY") @@ relationship
               ELSE relationship
        type == toUpperCase(rel.type)
    IN [relationship |-> rel,
        tables |->
          CASE type = "ONE_TO_MANY" -> addForeignKey(tables, t, tables[s], sourceColumn)
            [] type = "MANY_TO_ONE" -> addForeignKey(tables, s, tables[t], targetColumn)
            [] type = "ONE_TO_ONE" -> addForeignKey(tables, t, tables[s], sourceColumn)
            [] type = "MANY_TO_MANY" -> tables
            [] OTHER -> addForeignKey(tables, t, tables[s], sourceColumn)]

getTargetColumnName(relationship, sourceTable, targetTable) ==
    LET targetPK == primaryKeyOf(targetTable, [name |-> "id"]).name
        type == Str(relationship, "type")
    IN IF type = "ONE_TO_MANY" THEN toLowerCase(sourceTable.name) \o "_id"
       ELSE IF type = "MANY_TO_ONE" THEN targetPK
       ELSE IF type = "ONE_TO_ONE"
            THEN IF Truthy(relationship, "isIdentifying")
                 THEN toLowerCase(sourceTable.name) \o "_id"
                 ELSE targetPK
       ELSE targetPK

\* the assignment to attr.name inside processRelationshipAttributes
namedAttribute(attr) ==
    IF Str(attr, "name") = "" /\ Str(attr, "description") # ""
    THEN ("name" :> substring(replaceSpaces(stripNonWordOrSpace(toLowerCase(attr.description))),
                              0, 30)) @@ attr
    ELSE attr

processedAttribute(attr0) ==
    LET attr == namedAttribute(attr0) IN
    [name |-> IF Str(attr, "name") # "" THEN attr.name ELSE "unnamed_attribute",
     dataType |-> IF Str(attr, "dataType") # "" THEN attr.dataType
                  ELSE inferDataType(Str(attr, "name")),
     isPrimaryKey |-> Truthy(attr, "isPrimaryKey"),
     isForeignKey |-> Truthy(attr, "isForeignKey"),
     isNullable |-> NotFalse(attr, "isNullable"),
     isMultiValued |-> Truthy(attr, "isMultiValued") \/ Truthy(attr, "isMultivalued"),
     isDerived |-> Truthy(attr, "isDerived"),
     description |-> IF Str(attr, "description") # "" THEN attr.description
                     ELSE (IF Str(attr, "name") # "" THEN attr.name ELSE "Unnamed")
                          \o " attribute"] @@ attr

\* result: the returned attributes and the (assigned-to) input attributes
processRelationshipAttributes(attributes) ==
    [processed |-> [i \in 1..Len(attributes) |-> processedAttribute(attributes[i])],
     attributes |-> [i \in 1..Len(attributes) |-> namedAttribute(attributes[i])]]

participation(relationship, f) ==
    IF toUpperCase(Str(relationship, f)) = "TOTAL" THEN "TOTAL" ELSE "PARTIAL"

\* relationship.sourceEntity || relationship.sourceTable
endpointName(relationship, entityKey, tableKey) ==
    IF Str(relationship, entityKey) # "" THEN relationship[entityKey]
    ELSE Str(relationship, tableKey)

\* mutant of resolveTable: an unmatched name falls back to the first table
resolveTable_orFirst(tables, entityName) ==
    LET wanted == toLowerCase(transformTableName(entityName))
        matches(t) == toLowerCase(t.name) = wanted
    IN IF FindIndex(tables, matches) = 0 /\ Len(tables) > 0 THEN 1
       ELSE FindIndex(tables, matches)

\* tables.find(t => t.name.toLowerCase() === transformTableName(n).toLowerCase())
resolveTable(tables, entityName) ==
    LET wanted == toLowerCase(transformTableName(entityName))
        matches(t) == toLowerCase(t.name) = wanted
    IN FindIndex(tables, matches)

\* the object literal transformRelationship returns, for the relationship
\* object rel as setupForeignKeys leaves it
relationshipObject(rel, sourceTable, targetTable, sourceEntity, targetEntity, sourceColumn) ==
    [name |-> IF Str(rel, "name") # "" THEN rel.name
              ELSE IF Str(rel, "action") # "" THEN rel.action
              ELSE IF Str(rel, "verb") # "" THEN rel.verb
              ELSE IF rel.type = "ONE_TO_MANY" THEN "has" ELSE "relates_to",
     sourceTable |-> sourceTable.name,
     sourceEntity |-> sourceEntity,
     targetTable |-> targetTable.name,
     targetEntity |-> targetEntity,
     sourceColumn |-> sourceColumn,
     targetColumn |-> getTargetColumnName(rel, sourceTable, targetTable),
     type |-> rel.type,
     isIdentifying |-> IsTrue(rel, "isIdentifying"),
     description |-> IF Str(rel, "description") # "" THEN rel.description
                     ELSE "Relationship between " \o sourceTable.name
                          \o " and " \o targetTable.name,
     sourceCardinality |-> IF Str(rel, "sourceCardinality") # ""
                           THEN rel.sourceCardinality ELSE null,
     targetCardinality |-> IF Str(rel, "targetCardinality") # ""
                           THEN rel.targetCardinality ELSE null,
     sourceParticipation |-> participation(rel, "sourceParticipation"),
     targetParticipation |-> participation(rel, "targetParticipation"),
     attributes |-> IF Has(rel, "attributes")
                    THEN processRelationshipAttributes(rel.attributes).processed
                    ELSE <<>>,
     position |-> [x |-> (sourceTable.position.x + targetTable.position.x) \div 2,
                   y |-> (sourceTable.position.y + targetTable.position.y) \div 2,
                   isDraggable |-> TRUE],
     assumptionsMade |-> Arr(rel, "assumptionsMade")]

\* transformRelationship from "Process relationship attributes" on; fk is what
\* setupForeignKeys left of the relationship object and the tables
transformLinked(fk, s, t, sourceEntityName, targetEntityName, sourceColumnName) ==
    [found |-> TRUE,
     relationship |->
       IF Has(fk.relationship, "attributes")
       THEN [fk.relationship EXCEPT
               !.attributes = processRelationshipAttributes(@).attributes]
       ELSE fk.relationship,
     tables |-> fk.tables,
     result |-> relationshipObject(fk.relationship, fk.tables[s], fk.tables[t],
                                   sourceEntityName, targetEntityName, sourceColumnName)]

\* transformRelationship from "Skip if source or target table doesn't exist"
\* on; s and t are the positions of the tables found, 0 for none
transformResolved(relationship, tables, s, t, sourceEntityName, targetEntityName) ==
    IF s = 0 \/ t = 0
    THEN [found |-> FALSE, relationship |-> relationship, tables |-> tables]
    ELSE transformLinked(
           setupForeignKeys(relationship, tables, s, t,
                            primaryKeyOf(tables[s], [name |-> "id"]),
                            primaryKeyOf(tables[t], [name |-> "id"])),
           s, t, sourceEntityName, targetEntityName,
           primaryKeyOf(tables[s], [name |-> "id"]).name)

\* transformRelationship from the check of the entity names on
transformNamed(relationship, tables, sourceEntityName, targetEntityName) ==
    IF sourceEntityName = "" \/ targetEntityName = ""
    THEN [found |-> FALSE, relationship |-> relationship, tables |-> tables]
    ELSE transformResolved(relationship, tables,
                           resolveTable(tables, sourceEntityName),
                           resolveTable(tables, targetEntityName),
                           sourceEntityName, targetEntityName)

\* result: the returned relationship (present iff found), the relationship
\* object as the call leaves it, and the tables as the call leaves them
transformRelationship(relationship, tables) ==
    transformNamed(relationship, tables,
                   endpointName(relationship, "sourceEntity", "sourceTable"),
                   endpointName(relationship, "targetEntity", "targetTable"))

\* what one call of the map callback adds to the tables, the relationship
\* objects and the transformed relationships; r is transformRelationship's result
afterTransform(acc, r) ==
    [tables |-> r.tables,
     input |-> Append(acc.input, r.relationship),
     transformed |-> IF r.found THEN Append(acc.transformed, r.result)
                     ELSE acc.transformed]

\* relationships.map(rel => transformRelationship(rel, tables)).filter(Boolean),
\* threading the tables and the relationship objects through the calls
RECURSIVE transformRelationships(_, _, _)
transformRelationships(relationships, i, acc) ==
    IF i > Len(relationships) THEN acc
    ELSE transformRelationships(relationships, i + 1,
           afterTransform(acc, transformRelationship(relationships[i], acc.tables)))

weakEntityDescription(ownerTable) ==
    "Foreign key reference to " \o ownerTable.name
      \o " (part of composite primary key for weak entity)"

partialKey ==
    [name |-> "partial_id", dataType |-> "INTEGER", isPrimaryKey |-> TRUE,
     isForeignKey |-> FALSE, isNullable |-> FALSE, isUnique |-> FALSE,
     description |->
       "Partial key for weak entity (forms composite primary key with owner reference)"]

\* the body of identifyingRels.forEach
processIdentifyingRelationship(tables, rel) ==
    LET isOwner(t) == t.name = rel.sourceTable
        isDependent(t) == t.name = rel.targetTable
        o == FindIndex(tables, isOwner)
        d == FindIndex(tables, isDependent)
    IN
    IF o = 0 \/ d = 0 THEN tables
    ELSE
    LET ownerTable == tables[o]
        fkName == toLowerCase(ownerTable.name) \o "_id"
        isFk(c) == c.name = fkName
        columns == tables[d].columns
        k == FindIndex(columns, isFk)
        ownerPK == primaryKeyOf(ownerTable, [name |-> "id", dataType |-> "INTEGER"])
        fkColumn ==
          WithOpt([name |-> fkName, isPrimaryKey |-> TRUE, isForeignKey |-> TRUE,
                   isNullable |-> FALSE, isUnique |-> FALSE,
                   references |-> [table |-> ownerTable.name, column |-> ownerPK.name,
                                   onDelete |-> "CASCADE", onUpdate |-> "CASCADE"],
                   description |-> weakEntityDescription(ownerTable)],
                  ownerPK, "dataType")
        withFk ==
          IF k = 0 THEN <<fkColumn>> \o columns
          ELSE [columns EXCEPT ![k] =
                  ("isPrimaryKey" :> TRUE) @@ ("isNullable" :> FALSE)
                  @@ ("description" :> IF Str(columns[k], "description") # ""
                                       THEN columns[k].description
                                       ELSE weakEntityDescription(ownerTable))
                  @@ columns[k]]
        otherPK(c) == IsPK(c) /\ c.name # fkName
        withPartial ==
          IF FindIndex(withFk, otherPK) = 0
          THEN Splice(withFk, FindIndex(withFk, isFk) + 1, 0, <<partialKey>>)
          ELSE withFk
    IN [tables EXCEPT ![d].isWeakEntity = TRUE, ![d].columns = withPartial]

RECURSIVE processIdentifyingFrom(_, _, _)
processIdentifyingFrom(identifyingRels, i, tables) ==
    IF i > Len(identifyingRels) THEN tables
    ELSE processIdentifyingFrom(identifyingRels, i + 1,
           processIdentifyingRelationship(tables, identifyingRels[i]))

processIdentifyingRelationships(relationships, tables) ==
    LET isIdentifying(rel) == Truthy(rel, "isIdentifying")
    IN processIdentifyingFrom(Filter(relationships, isIdentifying), 1, tables)

nameColumnNames == {"name", "title", "label", "value"}
codeColumnNames == {"code", "key", "shortname", "abbreviation"}
lookupKeywords ==
    {"status", "type", "category", "state", "priority", "role",
     "permission", "gender", "country", "language"}
systemColumnNames == {"id", "created_at", "updated_at"}

\* mutant of detectLookupTable: the keywords in the table name do not count
detectLookupTable_sizeOnly(table) ==
    IF table.isLookupTable THEN table
    ELSE IF /\ Some(table.columns, IsPK)
            /\ Some(table.columns,
                    LAMBDA c : toLowerCase(c.name) \in nameColumnNames \cup codeColumnNames)
            /\ Len(Filter(table.columns, LAMBDA c : c.name \notin systemColumnNames)) <= 3
    THEN [table EXCEPT !.isLookupTable = TRUE]
    ELSE table

\* the body of tables.forEach in detectLookupTables
detectLookupTable(table) ==
    IF table.isLookupTable THEN table
    ELSE
    LET hasIdColumn == Some(table.columns, IsPK)
        isNameColumn(c) == toLowerCase(c.name) \in nameColumnNames
        isCodeColumn(c) == toLowerCase(c.name) \in codeColumnNames
        hasNameColumn == Some(table.columns, isNameColumn)
        hasCodeColumn == Some(table.columns, isCodeColumn)
        isLookupByName ==
          \E keyword \in lookupKeywords : includes(toLowerCase(table.name), keyword)
        isNonSystem(c) == c.name \notin systemColumnNames
        nonSystemColumns == Filter(table.columns, isNonSystem)
    IN IF /\ hasIdColumn
          /\ (hasNameColumn \/ hasCodeColumn)
          /\ (isLookupByName \/ Len(nonSystemColumns) <= 3)
       THEN [table EXCEPT
               !.isLookupTable = TRUE,
               !.description =
                 IF @ = "" \/ @ = "Table for " \o table.name
                 THEN "Lookup table for " \o underscoresToSpaces(table.name) \o " values"
                 ELSE @]
       ELSE table

detectLookupTables(tables) == [i \in 1..Len(tables) |-> detectLookupTable(tables[i])]

\* new Date()
Date(now) == [type |-> "Date", time |-> now]

\* generateSchema from "Process identifying relationships" on; rels is the
\* outcome of transforming the relationships
finalSchema(extractedData, now, rels) ==
    [schema |->
       [name |-> "New Schema",
        description |-> "",
        tables |-> detectLookupTables(
                     processIdentifyingRelationships(rels.transformed, rels.tables)),
        relationships |-> rels.transformed,
        version |-> 1,
        createdAt |-> Date(now),
        updatedAt |-> Date(now),
        nodePositions |-> <<>>],
     extractedData |->
       IF Has(extractedData, "relationships")
       THEN [extractedData EXCEPT !.relationships = rels.input]
       ELSE extractedData]

\* entities.map((entity, index) => ...)
tablesFromEntities(entities) ==
    [i \in 1..Len(entities) |-> tableFromEntity(entities[i], i - 1)]

\* result: the returned schema and extractedData as the call leaves it
generateSchema(extractedData, now) ==
    finalSchema(extractedData, now,
      transformRelationships(Arr(extractedData, "relationships"), 1,
        [tables |-> tablesFromEntities(Arr(extractedData, "entities")),
         input |-> <<>>, transformed |-> <<>>]))

(***************************************************************************)
(* sqlGenerator.service.js                                                 *)
(*                                                                         *)
(* Schema objects live in a heap (reference -> object), so that a write    *)
(* through one reference is seen through every alias of it.                *)
(***************************************************************************)
\* Date.prototype.toJSON
toJSON(date) == [type |-> "string", time |-> date.time]

\* JSON.parse(JSON.stringify(schema)): a structurally equal object in which
\* Date values have become strings (keys holding undefined are absent already)
JSONCopy(schema) ==
    [schema EXCEPT !.createdAt = IF @.type = "Date" THEN toJSON(@) ELSE @,
                   !.updatedAt = IF @.type = "Date" THEN toJSON(@) ELSE @]

\* mutant of deepCopy: processedSchema is the caller's object itself
deepCopy_alias(heap, schema) == [heap |-> heap, ref |-> schema]

\* const processedSchema = JSON.parse(JSON.stringify(schema)): a new object
\* under a new reference
deepCopy(heap, schema) ==
    [heap |-> ("processedSchema" :> JSONCopy(heap[schema])) @@ heap,
     ref |-> "processedSchema"]

junctionForeignKey(table, pk) ==
    WithOpt([name |-> table.name \o "_" \o pk.name,
             isPrimaryKey |-> TRUE, isForeignKey |-> TRUE,
             isNullable |-> FALSE, isUnique |-> FALSE,
             references |-> [table |-> table.name, column |-> pk.name,
                             onDelete |-> "CASCADE", onUpdate |-> "CASCADE"],
             description |-> "Foreign key reference to " \o table.name],
            pk, "dataType")

junctionAttributeColumn(attr) ==
    [name |-> attr.name,
     dataType |-> IF Str(attr, "dataType") # "" THEN attr.dataType ELSE "VARCHAR(255)",
     isPrimaryKey |-> FALSE,
     isForeignKey |-> FALSE,
     isNullable |-> NotFalse(attr, "isNullable"),
     isUnique |-> Truthy(attr, "isUnique"),
     description |-> IF Str(attr, "description") # "" THEN attr.description
                     ELSE attr.name \o " attribute"]

junctionTableFor(relationship, sourceTable, targetTable, sourcePK, targetPK) ==
    [name |-> sourceTable.name \o "_" \o targetTable.name,
     description |-> "Junction table for many-to-many relationship between "
                       \o sourceTable.name \o " and " \o targetTable.name,
     columns |-> <<junctionForeignKey(sourceTable, sourcePK),
                   junctionForeignKey(targetTable, targetPK)>>
                 \o [i \in 1..Len(Arr(relationship, "attributes")) |->
                       junctionAttributeColumn(relationship.attributes[i])]
                 \o <<createdAtColumn, updatedAtColumn>>,
     isJunctionTable |-> TRUE]

\* sourceToJunction / targetToJunction
toJunction(relationship, suffix, entityKey, table, pk, junctionTable) ==
    LET entity == IF Has(relationship, entityKey)
                  THEN ("sourceEntity" :> relationship[entityKey])
                  ELSE <<>>
    IN entity @@
       [name |-> relationship.name \o suffix,
        sourceTable |-> table.name,
        targetTable |-> junctionTable.name,
        targetEntity |-> junctionTable.name,
        sourceColumn |-> pk.name,
        targetColumn |-> table.name \o "_" \o pk.name,
        type |-> "ONE_TO_MANY",
        isIdentifying |-> TRUE,
        description |-> "One-to-many relationship from " \o table.name
                          \o " to junction table",
        sourceCardinality |-> "1..1",
        targetCardinality |-> "0..*",
        sourceParticipation |-> "PARTIAL",
        targetParticipation |-> "TOTAL"]

\* the body of manyToManyRelationships.forEach, on the object processedSchema
rewriteManyToMany(processedSchema, relationship) ==
    LET isSource(t) == t.name = relationship.sourceTable
        isTarget(t) == t.name = relationship.targetTable
        s == FindIndex(processedSchema.tables, isSource)
        t == FindIndex(processedSchema.tables, isTarget)
    IN
    IF s = 0 \/ t = 0 THEN processedSchema
    ELSE
    LET sourceTable == processedSchema.tables[s]
        targetTable == processedSchema.tables[t]
        sourcePK == primaryKeyOf(sourceTable, [name |-> "id", dataType |-> "INTEGER"])
        targetPK == primaryKeyOf(targetTable, [name |-> "id", dataType |-> "INTEGER"])
        junctionTableName == sourceTable.name \o "_" \o targetTable.name
    IN
    IF \E i \in 1..Len(processedSchema.tables) :
         processedSchema.tables[i].name = junctionTableName
    THEN processedSchema
    ELSE
    LET junctionTable ==
          junctionTableFor(relationship, sourceTable, targetTable, sourcePK, targetPK)
        sourceToJunction ==
          toJunction(relationship, "_source", "sourceEntity", sourceTable, sourcePK,
                     junctionTable)
        targetToJunction ==
          toJunction(relationship, "_target", "targetEntity", targetTable, targetPK,
                     junctionTable)
        isOriginal(rel) == /\ rel.sourceTable = relationship.sourceTable
                           /\ rel.targetTable = relationship.targetTable
                           /\ rel.type = "MANY_TO_MANY"
        relIndex == FindIndex(processedSchema.relationships, isOriginal)
    IN [processedSchema EXCEPT
          !.tables = Append(@, junctionTable),
          !.relationships =
             IF relIndex # 0
             THEN Splice(@, relIndex, 1, <<sourceToJunction, targetToJunction>>)
             ELSE @ \o <<sourceToJunction, targetToJunction>>]

RECURSIVE rewriteManyToManyFrom(_, _, _)
rewriteManyToManyFrom(manyToManyRelationships, i, processedSchema) ==
    IF i > Len(manyToManyRelationships) THEN processedSchema
    ELSE rewriteManyToManyFrom(manyToManyRelationships, i + 1,
           rewriteManyToMany(processedSchema, manyToManyRelationships[i]))

\* result: the heap as the call leaves it and the reference it returns
preprocessSchema(heap, schema, dialect) ==
    LET copy == deepCopy(heap, schema)
        processedSchema == copy.ref
        isManyToMany(rel) == rel.type = "MANY_TO_MANY"
        manyToManyRelationships ==
          Filter(copy.heap[processedSchema].relationships, isManyToMany)
    IN [heap |-> [copy.heap EXCEPT ![processedSchema] =
                    rewriteManyToManyFrom(manyToManyRelationships, 1, @)],
        ref |-> processedSchema]

supportedDialects == {"mysql", "postgresql", "sqlite", "sqlserver"}

\* mutant of getDialectGenerator: the default backend is SQLite
getDialectGenerator_defaultSqlite(dialect) ==
    IF toLowerCase(dialect) \in supportedDialects THEN toLowerCase(dialect) ELSE "sqlite"

\* generators[normalizedDialect] || generators.mysql
getDialectGenerator(dialect) ==
    IF toLowerCase(dialect) \in supportedDialects THEN toLowerCase(dialect) ELSE "mysql"

(***************************************************************************)
(* The dialect backends (./dialects/*.generator) are not part of the       *)
(* sources at hand; they are modelled from the specification's description *)
(* of the capability interface.  A statement is a record naming its        *)
(* category, the backend that wrote it and what it is about.               *)
(***************************************************************************)
Statement(kind, generator, table, column, name) ==
    [kind |-> kind, generator |-> generator, table |-> table, column |-> column,
     name |-> name]

\* the optional capabilities each backend implements
capabilities ==
    [mysql |-> {"generateDropStatements", "createViewStatements", "createStoredProcedures",
                "createTriggerStatements", "generateSeedData", "footerComment"},
     postgresql |-> {"generateDropStatements", "generateEnumTypes", "createViewStatements",
                     "createStoredProcedures", "createTriggerStatements",
                     "generateSeedData", "footerComment"},
     sqlite |-> {"generateDropStatements", "createViewStatements",
                 "createTriggerStatements", "generateSeedData"},
     sqlserver |-> {"generateDropStatements", "createViewStatements",
                    "createStoredProcedures", "createTriggerStatements",
                    "generateSeedData", "footerComment"}]

Implements(generator, capability) == capability \in capabilities[generator]

RECURSIVE Concat(_, _)
\* [].concat(...seqs) from index i on
Concat(seqs, i) == IF i > Len(seqs) THEN <<>> ELSE seqs[i] \o Concat(seqs, i + 1)

headerComment(generator, schema) ==
    Statement("header", generator, "", "", Str(schema, "name"))

\* DROP ... IF EXISTS per table, dependents first
generateDropStatements(generator, schema) ==
    [i \in 1..Len(schema.tables) |->
       Statement("drop", generator, schema.tables[Len(schema.tables) + 1 - i].name, "", "")]

isEnumColumn(c) == Len(c.dataType) >= 4 /\ SubSeq(c.dataType, 1, 4) = "ENUM"

\* CREATE TYPE per enum-typed column
enumTypesOf(generator, table) ==
    LET cols == Filter(table.columns, isEnumColumn)
    IN [j \in 1..Len(cols) |-> Statement("enum", generator, table.name, cols[j].name, "")]

generateEnumTypes(generator, schema) ==
    Concat([i \in 1..Len(schema.tables) |-> enumTypesOf(generator, schema.tables[i])], 1)

createTableStatement(generator, table, schema) ==
    Statement("table", generator, table.name, "", "")

addForeignKeyStatement(generator, tableName, fk) ==
    Statement("alter", generator, tableName, fk.columnName, fk.constraintName)

\* CREATE INDEX per foreign-key column
createIndexStatements(generator, table, schema) ==
    LET cols == Filter(table.columns, IsFK)
    IN [j \in 1..Len(cols) |->
          Statement("index", generator, table.name, cols[j].name, "")]

isJunctionTable(t) == Truthy(t, "isJunctionTable")
isWeakEntity(t) == Truthy(t, "isWeakEntity")
isLookupTable(t) == Truthy(t, "isLookupTable")

\* a view per junction table
createViewStatements(generator, schema) ==
    LET ts == Filter(schema.tables, isJunctionTable)
    IN [i \in 1..Len(ts) |-> Statement("view", generator, ts[i].name, "", "")]

\* a procedure per weak-entity table
createStoredProcedures(generator, schema) ==
    LET ts == Filter(schema.tables, isWeakEntity)
    IN [i \in 1..Len(ts) |-> Statement("procedure", generator, ts[i].name, "", "")]

hasUpdatedAt(t) == Some(t.columns, LAMBDA c : c.name = "updated_at")

\* an update-timestamp trigger per table with an updated_at column
createTriggerStatements(generator, schema) ==
    LET ts == Filter(schema.tables, hasUpdatedAt)
    IN [i \in 1..Len(ts) |-> Statement("trigger", generator, ts[i].name, "", "")]

generateSeedData(generator, table) ==
    <<Statement("insert", generator, table.name, "", "")>>

footerComment(generator, schema) ==
    Statement("footer", generator, "", "", Str(schema, "name"))

hasReferences(column) == IsFK(column) /\ Has(column, "references")

foreignKeyConstraint(table, column) ==
    [columnName |-> column.name,
     referenceTable |-> Str(column.references, "table"),
     referenceColumn |-> Str(column.references, "column"),
     onDelete |-> IF Str(column.references, "onDelete") # ""
                  THEN column.references.onDelete ELSE "NO ACTION",
     onUpdate |-> IF Str(column.references, "onUpdate") # ""
                  THEN column.references.onUpdate ELSE "NO ACTION",
     constraintName |-> "fk_" \o table.name \o "_" \o column.name]

getForeignKeyConstraints(table, schema) ==
    LET cols == Filter(table.columns, hasReferences)
    IN [j \in 1..Len(cols) |-> foreignKeyConstraint(table, cols[j])]

\* the ALTER TABLE statements of one table
alterTableStatementsOf(generator, table, schema) ==
    LET foreignKeys == getForeignKeyConstraints(table, schema)
    IN [j \in 1..Len(foreignKeys) |->
          addForeignKeyStatement(generator, table.name, foreignKeys[j])]

alterTableStatements(generator, schema) ==
    Concat([i \in 1..Len(schema.tables) |->
              alterTableStatementsOf(generator, schema.tables[i], schema)], 1)

\* mutant of tableStatements: the CREATE TABLE statements in reverse table order
tableStatements_reversed(generator, schema) ==
    [i \in 1..Len(schema.tables) |->
       createTableStatement(generator, schema.tables[Len(schema.tables) + 1 - i], schema)]

tableStatements(generator, schema) ==
    [i \in 1..Len(schema.tables) |->
       createTableStatement(generator, schema.tables[i], schema)]

indexStatements(generator, schema) ==
    Concat([i \in 1..Len(schema.tables) |->
              createIndexStatements(generator, schema.tables[i], schema)], 1)

insertStatements(generator, schema) ==
    LET ts == Filter(schema.tables, isLookupTable)
    IN Concat([i \in 1..Len(ts) |->
                 IF Implements(generator, "generateSeedData")
                 THEN generateSeedData(generator, ts[i]) ELSE <<>>], 1)

\* the statements list of generateSQL, in push order
statementsOf(schema, dialect, generator, processedSchema) ==
    <<headerComment(generator, schema)>>
    \o (IF Implements(generator, "generateDropStatements")
        THEN generateDropStatements(generator, processedSchema) ELSE <<>>)
    \o (IF dialect = "postgresql" /\ Implements(generator, "generateEnumTypes")
        THEN generateEnumTypes(generator, processedSchema) ELSE <<>>)
    \o tableStatements(generator, processedSchema)
    \o (IF dialect = "sqlserver" \/ dialect = "sqlite"
        THEN alterTableStatements(generator, processedSchema) ELSE <<>>)
    \o indexStatements(generator, processedSchema)
    \o (IF Implements(generator, "createViewStatements")
        THEN createViewStatements(generator, processedSchema) ELSE <<>>)
    \o (IF Implements(generator, "createStoredProcedures")
        THEN createStoredProcedures(generator, processedSchema) ELSE <<>>)
    \o (IF Implements(generator, "createTriggerStatements")
        THEN createTriggerStatements(generator, processedSchema) ELSE <<>>)
    \o insertStatements(generator, processedSchema)
    \o (IF Implements(generator, "footerComment")
        THEN <<footerComment(generator, processedSchema)>> ELSE <<>>)

\* "Map sqlserver dialect to tsql for the formatter"
formatterDialect(dialect) == IF toLowerCase(dialect) = "sqlserver" THEN "tsql" ELSE dialect

\* generateSQL after the preprocessing step; pre is preprocessSchema's result.
\* The returned text is the statements joined, handed to the pretty-printer
\* for the formatter's language (unformatted when the pretty-printer fails).
generatedSQL(schema, dialect, generator, pre) ==
    [heap |-> pre.heap,
     generator |-> generator,
     processedSchema |-> pre.heap[pre.ref],
     statements |-> statementsOf(schema, dialect, generator, pre.heap[pre.ref]),
     language |-> formatterDialect(dialect)]

\* result: the heap as the call leaves it, the dialect backend selected, the
\* working schema, the statements generated from it and the formatter language
generateSQL(heap, schema, dialect) ==
    generatedSQL(heap[schema], dialect, getDialectGenerator(dialect),
                 preprocessSchema(heap, schema, dialect))

(***************************************************************************)
(* Text processing of the diagram generator: String.prototype methods and  *)
(* the regular expressions of its code.  A pattern is a list of items:     *)
(* a greedy run of a character class ("plus", "star"), an optional or      *)
(* mandatory choice of literals ("alt", "opt") or an anchor ("bol", "eol", *)
(* "bolm", "eolm"); matching backtracks over the lengths of the runs as a  *)
(* backtracking matcher does.  The texts handled are ASCII.                *)
(***************************************************************************)
WordSet == UpperSet \cup LowerSet \cup DigitSet \cup {"_"}
IsWord(c) == c \in WordSet

InClass(c, class) ==
    CASE class = "w" -> IsWord(c)
      [] class = "s" -> IsSpace(c)
      [] class = "W" -> ~IsWord(c)
      [] class = "S" -> ~IsSpace(c)
      [] class = "." -> c # "\n" /\ c # "\r"
      [] class = "[^\"\\n]" -> c # "\"" /\ c # "\n"
      [] class = "[^\"]" -> c # "\""
      [] class = "_" -> c = "_"
      [] class = "[A-Z]" -> IsUpper(c)

Plus(class) == [k |-> "plus", class |-> class, lits |-> {}]
Star(class) == [k |-> "star", class |-> class, lits |-> {}]
Alt(lits) == [k |-> "alt", class |-> "", lits |-> lits]
Opt(lits) == [k |-> "opt", class |-> "", lits |-> lits]
Lit(lit) == Alt({lit})
Anchor(k) == [k |-> k, class |-> "", lits |-> {}]

\* the position after the longest run of class characters that starts at i
RunEnd(s, i, class) ==
    CHOOSE j \in i..(Len(s) + 1) :
        /\ j = Len(s) + 1 \/ ~InClass(Char(s, j), class)
        /\ \A k \in i..(j - 1) : InClass(Char(s, k), class)

LitAt(s, i, lit) == i + Len(lit) - 1 <= Len(s) /\ SubSeq(s, i, i + Len(lit) - 1) = lit

AnchorAt(s, i, k) ==
    CASE k = "bol" -> i = 1
      [] k = "eol" -> i = Len(s) + 1
      [] k = "bolm" -> i = 1 \/ Char(s, i - 1) = "\n"
      [] k = "eolm" -> i = Len(s) + 1 \/ Char(s, i) = "\n"

RECURSIVE Match(_, _, _, _)
\* the match of items n.. of the pattern at position i: the positions at which
\* each item starts, then the position after the match; <<>> when none.  A
\* run takes the longest length after which the rest of the pattern matches.
Match(pat, n, s, i) ==
    IF n > Len(pat) THEN <<i>>
    ELSE IF pat[n].k \in {"plus", "star"}
    THEN LET ends == {e \in (IF pat[n].k = "plus" THEN i + 1 ELSE i)..RunEnd(s, i, pat[n].class) :
                        Match(pat, n + 1, s, e) # <<>>}
         IN IF ends = {} THEN <<>>
            ELSE <<i>> \o Match(pat, n + 1, s, CHOOSE e \in ends : \A x \in ends : x <= e)
    ELSE IF pat[n].k \in {"alt", "opt"}
    THEN LET found == {l \in pat[n].lits : LitAt(s, i, l)}
             taken == IF found = {} THEN <<>>
                      ELSE Match(pat, n + 1, s, i + Len(CHOOSE l \in found : TRUE))
             skipped == IF pat[n].k = "opt" THEN Match(pat, n + 1, s, i) ELSE <<>>
         IN IF taken # <<>> THEN <<i>> \o taken
            ELSE IF skipped # <<>> THEN <<i>> \o skipped
            ELSE <<>>
    ELSE IF AnchorAt(s, i, pat[n].k) /\ Match(pat, n + 1, s, i) # <<>>
    THEN <<i>> \o Match(pat, n + 1, s, i)
    ELSE <<>>

\* the positions at which the pattern matches
Hits(pat, s) == {i \in 1..(Len(s) + 1) : Match(pat, 1, s, i) # <<>>}

Least(S) == CHOOSE i \in S : \A j \in S : i <= j

\* the leftmost match at or after position i, among the matching positions hits
Search(pat, s, i, hits) ==
    IF \A h \in hits : h < i THEN <<>>
    ELSE Match(pat, 1, s, Least({h \in hits : h >= i}))

\* RegExp.prototype.test
Test(pat, s) == Hits(pat, s) # {}

\* the text matched by items from..to of match m
Group(s, m, from, to) == SubSeq(s, m[from], m[to + 1] - 1)

Text(lit) == [lit |-> lit, from |-> 0, to |-> 0]
Ref(from, to) == [lit |-> "", from |-> from, to |-> to]

RECURSIVE Expand(_, _, _, _)
\* the replacement string: literal parts and $n references
Expand(template, k, s, m) ==
    IF k > Len(template) THEN ""
    ELSE (IF template[k].from = 0 THEN template[k].lit
          ELSE Group(s, m, template[k].from, template[k].to))
         \o Expand(template, k + 1, s, m)

RECURSIVE ReplaceFrom(_, _, _, _, _)
\* s.replace(/pat/g, template) from position i on
ReplaceFrom(pat, template, s, i, hits) ==
    LET m == Search(pat, s, i, hits)
    IN IF m = <<>> THEN SubSeq(s, i, Len(s))
       ELSE LET end == m[Len(m)]
            IN SubSeq(s, i, m[1] - 1) \o Expand(template, 1, s, m)
               \o (IF end > m[1] THEN ReplaceFrom(pat, template, s, end, hits)
                   ELSE IF end > Len(s) THEN ""
                   ELSE Char(s, end) \o ReplaceFrom(pat, template, s, end + 1, hits))

ReplaceAll(pat, template, s) == ReplaceFrom(pat, template, s, 1, Hits(pat, s))

\* s.replace(/pat/, template): the first match only
ReplaceFirst(pat, template, s) ==
    LET m == Search(pat, s, 1, Hits(pat, s))
    IN IF m = <<>> THEN s
       ELSE SubSeq(s, 1, m[1] - 1) \o Expand(template, 1, s, m)
            \o SubSeq(s, m[Len(m)], Len(s))

RECURSIVE MatchAllFrom(_, _, _, _)
\* s.match(/pat/g) || []: the texts of the successive matches
MatchAllFrom(pat, s, i, hits) ==
    LET m == Search(pat, s, i, hits)
    IN IF m = <<>> THEN <<>>
       ELSE LET end == m[Len(m)]
            IN <<SubSeq(s, m[1], end - 1)>>
               \o MatchAllFrom(pat, s, IF end > m[1] THEN end ELSE end + 1, hits)

MatchAll(pat, s) == MatchAllFrom(pat, s, 1, Hits(pat, s))

\* s without its leading white space
trimStart(s) == SubSeq(s, RunEnd(s, 1, "s"), Len(s))

\* s without its trailing white space
trimEnd(s) ==
    SubSeq(s, 1, CHOOSE j \in 0..Len(s) :
                   /\ j = 0 \/ ~IsSpace(Char(s, j))
                   /\ \A k \in (j + 1)..Len(s) : IsSpace(Char(s, k)))

\* String.prototype.trim
trim(s) == trimEnd(trimStart(s))

\* String.prototype.startsWith
startsWith(s, prefix) == LitAt(s, 1, prefix)

RECURSIVE splitAt(_, _, _)
\* the pieces of s from position start on, cut at the positions in cuts
splitAt(s, start, cuts) ==
    IF \A c \in cuts : c < start THEN <<SubSeq(s, start, Len(s))>>
    ELSE LET c == Least({x \in cuts : x >= start})
         IN <<SubSeq(s, start, c - 1)>> \o splitAt(s, c + 1, cuts)

\* s.split('\n')
splitLines(s) == splitAt(s, 1, {i \in 1..Len(s) : Char(s, i) = "\n"})

RECURSIVE join(_, _)
\* pieces.join(sep)
join(pieces, sep) ==
    IF Len(pieces) = 0 THEN ""
    ELSE IF Len(pieces) = 1 THEN pieces[1]
    ELSE pieces[1] \o sep \o join(Tail(pieces), sep)

RECURSIVE wordsFrom(_)
\* the maximal runs of non-space characters of s, in order
wordsFrom(s) ==
    LET t == trimStart(s)
        e == RunEnd(t, 1, "S")
    IN IF t = "" THEN <<>>
       ELSE <<SubSeq(t, 1, e - 1)>> \o wordsFrom(SubSeq(t, e, Len(t)))

\* s.trim().split(/\s+/)
splitWords(s) == IF trim(s) = "" THEN <<"">> ELSE wordsFrom(s)

(***************************************************************************)
(* The Mermaid generator service (class MermaidGeneratorService, second    *)
(* half of part_004): the module the export controller requires.           *)
(***************************************************************************)
RECURSIVE replaceNonWord(_)
\* name.replace(/[^\w]/g, '_')
replaceNonWord(s) ==
    IF s = "" THEN ""
    ELSE (IF IsWord(Char(s, 1)) THEN Char(s, 1) ELSE "_")
         \o replaceNonWord(SubSeq(s, 2, Len(s)))

RECURSIVE underscoreUpperCase(_)
\* s.replace(/([A-Z])/g, (match, p1) => '_' + p1.toLowerCase())
underscoreUpperCase(s) ==
    IF s = "" THEN ""
    ELSE (IF IsUpper(Char(s, 1)) THEN "_" \o toLowerChar(Char(s, 1)) ELSE Char(s, 1))
         \o underscoreUpperCase(SubSeq(s, 2, Len(s)))

hasUpperCase(s) == \E i \in 1..Len(s) : IsUpper(Char(s, i))

\* s.replace(/^_/, '')
dropLeadingUnderscore(s) == IF startsWith(s, "_") THEN SubSeq(s, 2, Len(s)) ELSE s

reservedKeywords ==
    {"class", "break", "case", "catch", "const", "continue", "debugger", "default",
     "delete", "do", "else", "export", "extends", "finally", "for", "function", "if",
     "import", "in", "instanceof", "new", "return", "super", "switch", "this", "throw",
     "try", "typeof", "var", "void", "while", "with", "yield"}

suffixReserved(sanitized) ==
    IF toLowerCase(sanitized) \in reservedKeywords THEN sanitized \o "_entity" ELSE sanitized

sanitizeName(name) ==
    IF name = "" THEN "unnamed"
    ELSE suffixReserved(IF hasUpperCase(replaceNonWord(name))
                        THEN dropLeadingUnderscore(underscoreUpperCase(replaceNonWord(name)))
                        ELSE replaceNonWord(name))

includesAny(s, subs) == \E sub \in subs : includes(s, sub)

mapDataTypeLower(lowerType) ==
    IF includesAny(lowerType, {"int", "number", "decimal", "float", "double", "bigint",
                               "smallint"}) THEN "number"
    ELSE IF includesAny(lowerType, {"char", "text", "string", "uuid", "json", "varchar"})
         THEN "string"
    ELSE IF includesAny(lowerType, {"date", "time", "timestamp"}) THEN "date"
    ELSE IF includes(lowerType, "bool") THEN "boolean"
    ELSE IF includesAny(lowerType, {"blob", "binary", "image"}) THEN "binary"
    ELSE "string"

mapDataType(dataType) ==
    IF dataType = "" THEN "string" ELSE mapDataTypeLower(toLowerCase(dataType))

\* column.primaryKey || column.isPrimaryKey
isPrimaryKeyColumn(column) == Truthy(column, "primaryKey") \/ Truthy(column, "isPrimaryKey")
\* the else-if branch: column.foreignKey || column.isForeignKey
isForeignKeyColumn(column) ==
    /\ ~isPrimaryKeyColumn(column)
    /\ Truthy(column, "foreignKey") \/ Truthy(column, "isForeignKey")
isRegularAttribute(column) == ~isPrimaryKeyColumn(column) /\ ~isForeignKeyColumn(column)

\* one attribute line; regular attributes carry the empty keyIndicator
attributeLine(column, suffix) ==
    "        " \o mapDataType(Str(column, "dataType")) \o " "
    \o sanitizeName(Str(column, "name")) \o " " \o suffix \o "\n"

attributeLines(columns, suffix) ==
    join([j \in 1..Len(columns) |-> attributeLine(columns[j], suffix)], "")

\* "Always ensure there's at least one primary key (typically 'id')"
primaryKeyLines(primaryKeys) ==
    IF Len(primaryKeys) = 0 THEN "        number id PK\n"
    ELSE attributeLines(primaryKeys, "PK")

generateEntityDefinition(table) ==
    IF Str(table, "name") = "" THEN ""
    ELSE "    " \o toLowerCase(sanitizeName(table.name)) \o " {\n"
         \o primaryKeyLines(Filter(Arr(table, "columns"), isPrimaryKeyColumn))
         \o attributeLines(Filter(Arr(table, "columns"), isForeignKeyColumn), "FK")
         \o attributeLines(Filter(Arr(table, "columns"), isRegularAttribute), "")
         \o "    }\n\n"

RECURSIVE escapeQuotes(_)
\* relationshipName.replace(/"/g, '\\"')
escapeQuotes(s) ==
    IF s = "" THEN ""
    ELSE (IF Char(s, 1) = "\"" THEN "\\\"" ELSE Char(s, 1))
         \o escapeQuotes(SubSeq(s, 2, Len(s)))

\* relationship.sourceEntity || relationship.sourceTable
orElse(o, f, g) == IF Str(o, f) # "" THEN o[f] ELSE Str(o, g)

sourceCardinalityOf(relationship) ==
    IF Has(relationship, "cardinality")
    THEN (IF Str(relationship.cardinality, "source") = "many" THEN "}o" ELSE "||")
    ELSE IF Str(relationship, "type") \in {"many-to-one", "MANY_TO_ONE",
                                           "many-to-many", "MANY_TO_MANY"} THEN "}o"
    ELSE "||"

targetCardinalityOf(relationship) ==
    IF Has(relationship, "cardinality")
    THEN (IF Str(relationship.cardinality, "target") = "many" THEN "o{" ELSE "||")
    ELSE IF Str(relationship, "type") \in {"one-to-many", "ONE_TO_MANY",
                                           "many-to-many", "MANY_TO_MANY"} THEN "o{"
    ELSE "||"

generateRelationshipDefinition(relationship) ==
    IF Str(relationship, "sourceEntity") = "" \/ Str(relationship, "targetEntity") = ""
    THEN ""
    ELSE "    " \o toLowerCase(sanitizeName(orElse(relationship, "sourceEntity", "sourceTable")))
         \o " " \o sourceCardinalityOf(relationship) \o " -- "
         \o targetCardinalityOf(relationship) \o " "
         \o toLowerCase(sanitizeName(orElse(relationship, "targetEntity", "targetTable")))
         \o " : \"" \o escapeQuotes(IF Str(relationship, "name") # ""
                                     THEN relationship.name ELSE "relates")
         \o "\"\n"

\* a pattern that begins with ^ (no m flag), tested on s
MatchesStart(pat, s) == Match(pat, 1, s, 1) # <<>>

\* (\|\||\}o|o\{)
cardinalitySymbol == Alt({"||", "}o", "o{"})

\* one replacement: the pattern and the replacement string
Step(pat, template) == [pat |-> pat, template |-> template]

\* formatted.replace(/(\|\||\}o|o\{)--(\|\||\}o|o\{)/g, '$1 -- $2') and the same
\* for a single dash
spaceDoubleDash ==
    Step(<<cardinalitySymbol, Lit("--"), cardinalitySymbol>>,
         <<Ref(1, 1), Text(" -- "), Ref(3, 3)>>)
spaceSingleDash ==
    Step(<<cardinalitySymbol, Lit("-"), cardinalitySymbol>>,
         <<Ref(1, 1), Text(" -- "), Ref(3, 3)>>)

RECURSIVE replaceEach(_, _)
\* formatted = formatted.replace(...) for each step in turn; texts holds the
\* successive values of formatted, the first being the text given
replaceEach(steps, texts) ==
    IF Len(texts) > Len(steps) THEN texts[Len(texts)]
    ELSE replaceEach(steps,
           Append(texts, ReplaceAll(steps[Len(texts)].pat, steps[Len(texts)].template,
                                    texts[Len(texts)])))

spaceRelationshipOperator(text) == replaceEach(<<spaceDoubleDash, spaceSingleDash>>, <<text>>)

\* steps 1 to 5 of autoFormatMermaidSyntax: the replacements on the whole text
autoFormatSteps ==
    << Step(<<Plus("w"), Plus("s"), Plus("w"), Plus("s"), Plus("w"), Star("s"),
              Lit("}"), Plus("w")>>,
            <<Ref(1, 5), Text("\n    }\n\n    "), Ref(8, 8)>>),
       Step(<<Lit("}"), Star("s"), Plus("w"), Star("s"), Lit("{")>>,
            <<Text("}\n\n    "), Ref(3, 3), Text(" {")>>),
       spaceDoubleDash,
       spaceSingleDash,
       Step(<<Lit(":"), Star("s"), Plus("[^\"\\n]"), Anchor("eolm")>>,
            <<Text(": \""), Ref(3, 3), Text("\"")>>),
       Step(<<Lit(":"), Star("s"), Lit("\""), Star("[^\"]"), Lit("\""), Anchor("eolm")>>,
            <<Text(": \""), Ref(4, 4), Text("\"")>>) >>

autoFormatText(mermaidSyntax) == replaceEach(autoFormatSteps, <<mermaidSyntax>>)

\* /^\s*\w+\s+{$/
entityHeaderPattern == <<Star("s"), Plus("w"), Plus("s"), Lit("{"), Anchor("eol")>>
\* /^\s*\w+\s+\w+/
attributePattern == <<Star("s"), Plus("w"), Plus("s"), Plus("w")>>
\* /{\s*$/
openBraceAtEnd == <<Lit("{"), Star("s"), Anchor("eol")>>
\* /^\s*\w+\s+(\|\||\}o|o\{).*--.*(\|\||\}o|o\{)\s+\w+/
relationshipLinePattern ==
    <<Star("s"), Plus("w"), Plus("s"), cardinalitySymbol, Star("."), Lit("--"), Star("."),
      cardinalitySymbol, Plus("s"), Plus("w")>>

indentEntityHeader(line) ==
    IF MatchesStart(entityHeaderPattern, trim(line)) /\ ~startsWith(line, "    ")
    THEN "    " \o trim(line) ELSE line

indentClosingBrace(line) ==
    IF trim(line) = "}" /\ ~startsWith(line, "    ") THEN "    " \o trim(line) ELSE line

indentAttribute(line, afterOpenBrace) ==
    IF /\ MatchesStart(attributePattern, trim(line))
       /\ ~startsWith(line, "        ")
       /\ afterOpenBrace
    THEN "        " \o trim(line) ELSE line

indentRelationship(line) ==
    IF MatchesStart(relationshipLinePattern, trim(line))
    THEN spaceRelationshipOperator(IF ~startsWith(line, "    ")
                                   THEN "    " \o trim(line) ELSE line)
    ELSE line

\* one iteration of the loop of step 6; previous is lines[i-1] as the loop left
\* it, first says that i = 0
formatLine(line, previous, first) ==
    indentRelationship(
      indentAttribute(indentClosingBrace(indentEntityHeader(line)),
                      ~first /\ Test(openBraceAtEnd, previous)))

RECURSIVE formatLines(_, _)
\* the loop of step 6; done holds the lines already processed, the loop is at
\* line Len(done) + 1
formatLines(lines, done) ==
    IF Len(done) >= Len(lines) THEN done
    ELSE formatLines(lines,
           Append(done, formatLine(lines[Len(done) + 1],
                                   IF done = <<>> THEN "" ELSE done[Len(done)],
                                   done = <<>>)))

autoFormatMermaidSyntax(mermaidSyntax) ==
    IF mermaidSyntax = "" THEN mermaidSyntax
    ELSE join(formatLines(splitLines(autoFormatText(mermaidSyntax)), <<>>), "\n")

\* line.match(/pat/): the first match
FirstMatch(pat, s) == Search(pat, s, 1, Hits(pat, s))

\* the validation result object before any check
validResult == [isValid |-> TRUE, errors |-> <<>>]

\* result.isValid = false; result.errors.push(...messages)
withErrors(result, messages) == [isValid |-> FALSE, errors |-> result.errors \o messages]

\* /}(\s*)(\w+)(\s*){/
missingNewlinePattern == <<Lit("}"), Star("s"), Plus("w"), Star("s"), Lit("{")>>
\* /(\w+)(\s+)(\w+)(\s+)(\w+)}(\w+)/
missingNewlineBeforeBracePattern ==
    <<Plus("w"), Plus("s"), Plus("w"), Plus("s"), Plus("w"), Lit("}"), Plus("w")>>
\* /^\s*(\w+)\s+(\|\||}\o|\o\{)(--|\-\-|-)(\|\||}\o|\o\{)\s+(\w+)/, ASCII part
badRelationshipPattern ==
    <<Star("s"), Plus("w"), Plus("s"), cardinalitySymbol, Lit("--"), cardinalitySymbol,
      Plus("s"), Plus("w")>>
\* /^\s*(\w+)\s+(\|\||}\o|\o\{)\s+--\s+(\|\||}\o|\o\{)\s+(\w+)/
spacedRelationshipPattern ==
    <<Star("s"), Plus("w"), Plus("s"), cardinalitySymbol, Plus("s"), Lit("--"), Plus("s"),
      cardinalitySymbol, Plus("s"), Plus("w")>>
\* /^\s*(\w+)\s+(\w+)(\s+.*)?$/: the optional group as its two cases
attributeWithSuffixPattern ==
    <<Star("s"), Plus("w"), Plus("s"), Plus("w"), Plus("s"), Star("."), Anchor("eol")>>
attributeBarePattern == <<Star("s"), Plus("w"), Plus("s"), Plus("w"), Anchor("eol")>>
\* /^\s*#\s+.*$/
hashCommentPattern == <<Star("s"), Lit("#"), Plus("s"), Star("."), Anchor("eol")>>

isAttributeOrComment(line) ==
    \/ MatchesStart(attributeBarePattern, line)
    \/ MatchesStart(attributeWithSuffixPattern, line)
    \/ MatchesStart(hashCommentPattern, line)

\* the state of the loop of checkStructuralErrors before its first line
structureStart(result) ==
    [result |-> result, openBraces |-> <<>>, entities |-> <<>>, currentEntity |-> "null",
     next |-> 1]

missingNewlineErrors(line, n, m) ==
    <<"Syntax error on line " \o ToString(n)
        \o ": Missing newline between entity definitions. Found \"" \o line
        \o "\". Entities should be separated by newlines.",
      "Hint: Replace \"" \o line \o "\" with \"}\n\n    " \o Group(line, m, 3, 3) \o " {\"">>

missingNewlineBeforeBraceErrors(line, n, m) ==
    <<"Syntax error on line " \o ToString(n)
        \o ": Missing newline before closing brace. Found \"" \o line \o "\".",
      "Fix: Add a newline after \"" \o Group(line, m, 1, 1) \o " " \o Group(line, m, 3, 3)
        \o " " \o Group(line, m, 5, 5) \o "\" and before the closing brace.",
      "Proper format:\n    " \o Group(line, m, 1, 1) \o " " \o Group(line, m, 3, 3)
        \o " " \o Group(line, m, 5, 5) \o "\n    }\n\n    " \o Group(line, m, 7, 7) \o " {">>

badRelationshipErrors(line, n, m) ==
    <<"Malformed relationship on line " \o ToString(n) \o ": \"" \o line
        \o "\". Relationships should have spaces around the -- operator.",
      "Fix: Format as \"" \o Group(line, m, 2, 2) \o " " \o Group(line, m, 4, 4)
        \o " -- " \o Group(line, m, 6, 6) \o " " \o Group(line, m, 8, 8) \o "\"">>

\* one iteration of the loop of checkStructuralErrors: line is lines[i].trim()
\* and n is i + 1
checkLine(st, line, n) ==
    IF line = "" \/ startsWith(line, "%%") THEN st
    ELSE IF MatchesStart(entityHeaderPattern, line)
    THEN [st EXCEPT !.currentEntity = Group(line, Match(entityHeaderPattern, 1, line, 1), 2, 2),
                    !.entities = Append(@, Group(line, Match(entityHeaderPattern, 1, line, 1), 2, 2)),
                    !.openBraces = Append(@, [entity |-> Group(line, Match(entityHeaderPattern, 1, line, 1), 2, 2),
                                              line |-> n])]
    ELSE IF Test(missingNewlinePattern, line)
    THEN [st EXCEPT !.result = withErrors(@, missingNewlineErrors(line, n,
                                     FirstMatch(missingNewlinePattern, line)))]
    ELSE IF Test(missingNewlineBeforeBracePattern, line)
    THEN [st EXCEPT !.result = withErrors(@, missingNewlineBeforeBraceErrors(line, n,
                                     FirstMatch(missingNewlineBeforeBracePattern, line)))]
    ELSE IF line = "}"
    THEN (IF Len(st.openBraces) = 0
          THEN [st EXCEPT !.result = withErrors(@,
                  <<"Unexpected closing brace on line " \o ToString(n)
                      \o " with no matching opening brace">>)]
          ELSE [st EXCEPT !.openBraces = SubSeq(@, 1, Len(@) - 1)])
    ELSE IF MatchesStart(badRelationshipPattern, line)
    THEN [st EXCEPT !.result = withErrors(@, badRelationshipErrors(line, n,
                                     Match(badRelationshipPattern, 1, line, 1)))]
    ELSE IF MatchesStart(spacedRelationshipPattern, line) /\ Len(st.openBraces) > 0
    THEN [st EXCEPT !.result = withErrors(@,
            <<"Relationship defined inside entity block at line " \o ToString(n)
                \o ". Close the entity definition first.">>)]
    ELSE IF Len(st.openBraces) > 0 /\ ~isAttributeOrComment(line)
    THEN [st EXCEPT !.result = withErrors(@,
            <<"Malformed attribute on line " \o ToString(n) \o " in entity \""
                \o st.currentEntity \o "\": \"" \o line \o "\"">>)]
    ELSE st

RECURSIVE checkLines(_, _)
\* the loop of checkStructuralErrors; st.next is the line it reads next
checkLines(st, lines) ==
    IF st.next > Len(lines) THEN st
    ELSE checkLines([checkLine(st, trim(lines[st.next]), st.next) EXCEPT !.next = @ + 1],
                    lines)

RECURSIVE unclosedErrors(_, _)
unclosedErrors(openBraces, k) ==
    IF k > Len(openBraces) THEN <<>>
    ELSE <<"Unclosed entity definition for '" \o openBraces[k].entity
             \o "' started on line " \o ToString(openBraces[k].line)>>
         \o unclosedErrors(openBraces, k + 1)

Count(seq, x) == Cardinality({k \in 1..Len(seq) : seq[k] = x})

RECURSIVE duplicateErrors(_, _)
\* Object.entries(entityCounts): one entry per entity name, in the order of
\* the first definitions
duplicateErrors(entities, k) ==
    IF k > Len(entities) THEN <<>>
    ELSE (IF Count(entities, entities[k]) > 1
             /\ \A j \in 1..(k - 1) : entities[j] # entities[k]
          THEN <<"Duplicate entity definition: '" \o entities[k] \o "' defined "
                   \o ToString(Count(entities, entities[k])) \o " times">>
          ELSE <<>>)
         \o duplicateErrors(entities, k + 1)

\* the errors the checks after the loop add
structureEnd(st) ==
    IF Len(unclosedErrors(st.openBraces, 1) \o duplicateErrors(st.entities, 1)) = 0
    THEN st.result
    ELSE withErrors(st.result,
                    unclosedErrors(st.openBraces, 1) \o duplicateErrors(st.entities, 1))

checkStructuralErrors(mermaidSyntax, result) ==
    structureEnd(checkLines(structureStart(result), splitLines(mermaidSyntax)))

RECURSIVE removeUnderscores(_)
\* name.replace(/_/g, '')
removeUnderscores(s) ==
    IF s = "" THEN ""
    ELSE (IF Char(s, 1) = "_" THEN "" ELSE Char(s, 1)) \o removeUnderscores(SubSeq(s, 2, Len(s)))

\* /\s+(\w+)\s+{/g
entityMatchPattern == <<Plus("s"), Plus("w"), Plus("s"), Lit("{")>>
\* /\s+(\w+)\s+(\|\||}\o|\o\{)\s*--\s*(\|\||}\o|\o\{)\s+(\w+)/g
relationshipMatchPattern ==
    <<Plus("s"), Plus("w"), Plus("s"), cardinalitySymbol, Star("s"), Lit("--"), Star("s"),
      cardinalitySymbol, Plus("s"), Plus("w")>>

\* the non-empty first words, lower-cased, of the entity matches
entityNamesOf(entityMatches) ==
    LET firstWords == [k \in 1..Len(entityMatches) |->
                         toLowerCase(splitWords(entityMatches[k])[1])]
    IN Filter(firstWords, LAMBDA name : name # "")

isWordOnly(part) == part # "" /\ \A i \in 1..Len(part) : IsWord(Char(part, i))

\* "Find the target entity by looking for the last word in the relationship"
lastWordOf(parts) ==
    IF \A k \in 1..Len(parts) : ~isWordOnly(parts[k]) THEN ""
    ELSE toLowerCase(parts[CHOOSE k \in 1..Len(parts) :
                             /\ isWordOnly(parts[k])
                             /\ \A j \in (k + 1)..Len(parts) : ~isWordOnly(parts[j])])

Range(seq) == {seq[k] : k \in 1..Len(seq)}

\* the entity names offered as close matches of an undefined name
possibleMatches(entityNames, name) ==
    Filter(entityNames,
           LAMBDA e : \/ includes(e, name) \/ includes(name, e)
                      \/ includes(removeUnderscores(e), removeUnderscores(name))
                      \/ includes(removeUnderscores(name), removeUnderscores(e)))

\* the errors for one end of a relationship; side is "source" or "target"
undefinedEntityErrors(entityNames, name, side) ==
    IF \/ name \in Range(entityNames)
       \/ removeUnderscores(name) \in {removeUnderscores(e) : e \in Range(entityNames)}
    THEN <<>>
    ELSE <<"Relationship references undefined " \o side \o " entity: " \o name>>
         \o (IF Len(possibleMatches(entityNames, name)) > 0
             THEN <<"Did you mean one of these? "
                      \o join(possibleMatches(entityNames, name), ", ")>>
             ELSE <<>>)

RECURSIVE referenceErrors(_, _, _)
\* the loop over the relationship matches
referenceErrors(entityNames, relationshipMatches, k) ==
    IF k > Len(relationshipMatches) THEN <<>>
    ELSE undefinedEntityErrors(entityNames,
                               toLowerCase(splitWords(relationshipMatches[k])[1]), "source")
         \o undefinedEntityErrors(entityNames,
                                  lastWordOf(splitWords(relationshipMatches[k])), "target")
         \o referenceErrors(entityNames, relationshipMatches, k + 1)

sizeErrors(entityNames, relationshipMatches) ==
    (IF Len(entityNames) > 20
     THEN <<"Warning: Diagram contains " \o ToString(Len(entityNames))
              \o " entities. Large diagrams may have rendering issues.">>
     ELSE <<>>)
    \o (IF Len(relationshipMatches) > 30
        THEN <<"Warning: Diagram contains " \o ToString(Len(relationshipMatches))
                 \o " relationships. Complex layouts may have rendering issues.">>
        ELSE <<>>)

\* the checks of validateMermaidSyntax on the formatted text
validateFormatted(formattedSyntax, entityNames, relationshipMatches) ==
    LET structural == checkStructuralErrors(formattedSyntax, validResult)
        more == sizeErrors(entityNames, relationshipMatches)
                \o referenceErrors(entityNames, relationshipMatches, 1)
    IN IF Len(more) = 0 THEN structural ELSE withErrors(structural, more)

validateMermaidSyntax(mermaidSyntax) ==
    IF mermaidSyntax = "" \/ mermaidSyntax = "erDiagram\n"
    THEN withErrors(validResult, <<"Empty diagram: No entities or relationships defined">>)
    ELSE validateFormatted(autoFormatMermaidSyntax(mermaidSyntax),
           entityNamesOf(MatchAll(entityMatchPattern, autoFormatMermaidSyntax(mermaidSyntax))),
           MatchAll(relationshipMatchPattern, autoFormatMermaidSyntax(mermaidSyntax)))

\* the text generateMermaidERD builds before formatting: the entity
\* definitions, then the relationship definitions
emittedSyntax(schema) ==
    "erDiagram\n"
    \o join([i \in 1..Len(schema.tables) |-> generateEntityDefinition(schema.tables[i])], "")
    \o join([k \in 1..Len(Arr(schema, "relationships")) |->
               generateRelationshipDefinition(schema.relationships[k])], "")

RECURSIVE warningLines(_, _)
warningLines(errors, k) ==
    IF k > Len(errors) THEN ""
    ELSE "    %% - " \o errors[k] \o "\n" \o warningLines(errors, k + 1)

\* mutant of withWarnings: the validation errors are not appended
withWarnings_silent(mermaidSyntax, validation) == mermaidSyntax

\* the formatted text with the validation warnings as trailing comments
withWarnings(mermaidSyntax, validation) ==
    IF validation.isValid THEN mermaidSyntax
    ELSE mermaidSyntax \o "\n    %% Validation Warnings:\n" \o warningLines(validation.errors, 1)

generateMermaidERD(schema) ==
    withWarnings(autoFormatMermaidSyntax(emittedSyntax(schema)),
                 validateMermaidSyntax(autoFormatMermaidSyntax(emittedSyntax(schema))))

(***************************************************************************)
(* The second copy of class MermaidGeneratorService, in                    *)
(* controllers/export.controller.mermaid.js.  Its methods have the names   *)
(* of the service's; they carry the suffix _copy here.                     *)
(***************************************************************************)
RECURSIVE collapseUnderscores(_)
\* s.replace(/_{2,}/g, '_')
collapseUnderscores(s) ==
    IF Len(s) < 2 THEN s
    ELSE IF Char(s, 1) = "_" /\ Char(s, 2) = "_"
         THEN collapseUnderscores(SubSeq(s, 2, Len(s)))
         ELSE Char(s, 1) \o collapseUnderscores(SubSeq(s, 2, Len(s)))

sanitizeName_copy(name) ==
    IF name = "" THEN "unnamed" ELSE collapseUnderscores(replaceNonWord(name))

mapDataTypeLower_copy(lowerType) ==
    IF includesAny(lowerType, {"int", "number", "decimal", "float", "double", "numeric"})
    THEN "number"
    ELSE IF includesAny(lowerType, {"char", "text", "string", "varchar", "uuid", "json"})
         THEN "string"
    ELSE IF includesAny(lowerType, {"date", "time", "timestamp"}) THEN "date"
    ELSE IF includes(lowerType, "bool") THEN "boolean"
    ELSE "string"

mapDataType_copy(dataType) ==
    IF dataType = "" THEN "string" ELSE mapDataTypeLower_copy(toLowerCase(dataType))

\* one attribute line: the key indicator is read from column.primaryKey and
\* column.foreignKey
attributeLine_copy(column) ==
    "        " \o mapDataType_copy(Str(column, "dataType")) \o " "
    \o sanitizeName_copy(Str(column, "name"))
    \o (IF Truthy(column, "primaryKey") THEN " PK"
        ELSE IF Truthy(column, "foreignKey") THEN " FK" ELSE "")
    \o "\n"

generateEntityDefinition_copy(table) ==
    IF Str(table, "name") = "" THEN ""
    ELSE "    " \o toLowerCase(sanitizeName_copy(table.name)) \o " {\n"
         \o join([j \in 1..Len(Arr(table, "columns")) |->
                    attributeLine_copy(table.columns[j])], "")
         \o "    }\n\n"

sourceCardinalityOf_copy(relationship) ==
    IF Has(relationship, "cardinality")
    THEN (IF Str(relationship.cardinality, "source") = "many" THEN "}o"
          ELSE IF Str(relationship.cardinality, "source") = "zero-or-one" THEN "|o"
          ELSE "||")
    ELSE IF Str(relationship, "type") \in {"many-to-one", "many-to-many"} THEN "}o"
    ELSE "||"

targetCardinalityOf_copy(relationship) ==
    IF Has(relationship, "cardinality")
    THEN (IF Str(relationship.cardinality, "target") = "many" THEN "o{"
          ELSE IF Str(relationship.cardinality, "target") = "zero-or-one" THEN "o|"
          ELSE "||")
    ELSE IF Str(relationship, "type") \in {"one-to-many", "many-to-many"} THEN "o{"
    ELSE "||"

generateRelationshipDefinition_copy(relationship) ==
    IF Str(relationship, "sourceEntity") = "" \/ Str(relationship, "targetEntity") = ""
    THEN ""
    ELSE "    "
         \o toLowerCase(sanitizeName_copy(orElse(relationship, "sourceEntity", "sourceTable")))
         \o " " \o sourceCardinalityOf_copy(relationship) \o "--"
         \o targetCardinalityOf_copy(relationship) \o " "
         \o toLowerCase(sanitizeName_copy(orElse(relationship, "targetEntity", "targetTable")))
         \o " : \"" \o (IF Str(relationship, "name") # "" THEN relationship.name ELSE "relates")
         \o "\"\n"

\* s.replace(/\s+required/g, '')
removeRequired(text) == ReplaceAll(<<Plus("s"), Lit("required")>>, <<>>, text)

\* the replacements of autoFormatMermaidSyntax on the whole text
autoFormatText_copy(mermaidSyntax) ==
    ReplaceAll(<<Lit("}"), Star("s"), Plus("w"), Star("s"), Lit("{")>>,
               <<Text("}\n\n    "), Ref(3, 3), Text(" {")>>,
      ReplaceAll(<<Plus("w"), Plus("s"), Plus("w"), Star("s"), Opt({"PK", "FK"}), Star("s"),
                   Star("s"), Lit("}"), Plus("w")>>,
                 <<Ref(1, 6), Text("\n    }\n\n    "), Ref(9, 9)>>,
                 removeRequired(mermaidSyntax)))

\* /^\w+\s*{$/
entityHeaderPattern_copy == <<Plus("w"), Star("s"), Lit("{"), Anchor("eol")>>
\* /^\w+\s+\w+/
attributePattern_copy == <<Plus("w"), Plus("s"), Plus("w")>>

\* one iteration of the line loop
formatLine_copy(line) ==
    IF trim(line) = "" THEN ""
    ELSE IF trim(line) = "erDiagram" THEN trim(line)
    ELSE IF MatchesStart(entityHeaderPattern_copy, trim(line)) THEN "    " \o trim(line)
    ELSE IF trim(line) = "}" THEN "    }"
    ELSE IF MatchesStart(attributePattern_copy, trim(line)) /\ ~includes(trim(line), "--")
         THEN "        " \o removeRequired(trim(line))
    ELSE IF includes(trim(line), "--") THEN "    " \o trim(line)
    ELSE IF startsWith(trim(line), "%%") THEN "    " \o trim(line)
    ELSE line

formatLines_copy(lines) == [i \in 1..Len(lines) |-> formatLine_copy(lines[i])]

autoFormatMermaidSyntax_copy(mermaidSyntax) ==
    IF mermaidSyntax = "" THEN mermaidSyntax
    ELSE join(formatLines_copy(splitLines(autoFormatText_copy(mermaidSyntax))), "\n")

\* (\|\||}\o|\o\{|\|o|o\|)
cardinalitySymbol_copy == Alt({"||", "}o", "o{", "|o", "o|"})
\* /^(\w+)\s+(...)--(...)\s+(\w+)/
relationshipPattern_copy ==
    <<Plus("w"), Plus("s"), cardinalitySymbol_copy, Lit("--"), cardinalitySymbol_copy,
      Plus("s"), Plus("w")>>
\* /^(\w+)\s+(\w+)(\s+(PK|FK))?$/: the optional group as its two cases
attributeKeyPattern_copy ==
    <<Plus("w"), Plus("s"), Plus("w"), Plus("s"), Alt({"PK", "FK"}), Anchor("eol")>>
attributeBarePattern_copy == <<Plus("w"), Plus("s"), Plus("w"), Anchor("eol")>>

isAttribute_copy(line) ==
    \/ MatchesStart(attributeBarePattern_copy, line)
    \/ MatchesStart(attributeKeyPattern_copy, line)

\* the checks of one line that is neither an entity header nor a closing brace
checkBodyLine_copy(st, line, n) ==
    [st EXCEPT !.result =
       LET inside ==
             IF MatchesStart(relationshipPattern_copy, line) /\ Len(st.openBraces) > 0
             THEN <<"Relationship defined inside entity block at line " \o ToString(n)
                      \o ". Close the entity definition first.">>
             ELSE <<>>
           attribute ==
             IF /\ Len(st.openBraces) > 0
                /\ st.currentEntity # "null"
                /\ ~isAttribute_copy(line)
             THEN <<"Malformed attribute on line " \o ToString(n) \o " in entity \""
                      \o st.currentEntity \o "\": \"" \o line \o "\"",
                    "Expected format: \"datatype attribute_name [PK|FK]\"">>
             ELSE <<>>
           relationship ==
             IF includes(line, "--") /\ ~MatchesStart(relationshipPattern_copy, line)
             THEN <<"Malformed relationship on line " \o ToString(n) \o ": \"" \o line \o "\"",
                    "Expected format: \"entity1 cardinality--cardinality entity2 : \\\"label\\\"\"">>
             ELSE <<>>
       IN IF Len(inside \o attribute \o relationship) = 0 THEN @
          ELSE withErrors(@, inside \o attribute \o relationship)]

\* one iteration of the loop of checkStructuralErrors: line is lines[i].trim()
checkLine_copy(st, line, n) ==
    IF line = "" \/ startsWith(line, "%%") \/ line = "erDiagram" THEN st
    ELSE IF MatchesStart(entityHeaderPattern_copy, line)
    THEN [st EXCEPT !.currentEntity = Group(line, Match(entityHeaderPattern_copy, 1, line, 1), 1, 1),
                    !.entities = Append(@, Group(line, Match(entityHeaderPattern_copy, 1, line, 1), 1, 1)),
                    !.openBraces = Append(@, [entity |-> Group(line, Match(entityHeaderPattern_copy, 1, line, 1), 1, 1),
                                              line |-> n])]
    ELSE IF line = "}"
    THEN (IF Len(st.openBraces) = 0
          THEN [st EXCEPT !.result = withErrors(@,
                  <<"Unexpected closing brace on line " \o ToString(n)
                      \o " with no matching opening brace">>)]
          ELSE [st EXCEPT !.openBraces = SubSeq(@, 1, Len(@) - 1), !.currentEntity = "null"])
    ELSE checkBodyLine_copy(st, line, n)

RECURSIVE checkLines_copy(_, _)
checkLines_copy(st, lines) ==
    IF st.next > Len(lines) THEN st
    ELSE checkLines_copy([checkLine_copy(st, trim(lines[st.next]), st.next)
                            EXCEPT !.next = @ + 1], lines)

checkStructuralErrors_copy(mermaidSyntax, result) ==
    structureEnd(checkLines_copy(structureStart(result), splitLines(mermaidSyntax)))

\* /^\s*(\w+)\s*{/gm
entityMatchPattern_copy == <<Anchor("bolm"), Star("s"), Plus("w"), Star("s"), Lit("{")>>
\* /^\s*(\w+)\s+(...)--(...)\s+(\w+)/gm
relationshipMatchPattern_copy ==
    <<Anchor("bolm"), Star("s"), Plus("w"), Plus("s"), cardinalitySymbol_copy, Lit("--"),
      cardinalitySymbol_copy, Plus("s"), Plus("w")>>

\* match.trim().replace(/\s*{$/, '').trim().toLowerCase(), the empty ones dropped
entityNamesOf_copy(entityMatches) ==
    LET names == [k \in 1..Len(entityMatches) |->
                    toLowerCase(trim(ReplaceFirst(<<Star("s"), Lit("{"), Anchor("eol")>>, <<>>,
                                                  trim(entityMatches[k]))))]
    IN Filter(names, LAMBDA name : name # "")

\* the errors for one relationship match: its ends are looked up only when the
\* match has at least four parts
referenceErrorsOf_copy(entityNames, parts) ==
    IF Len(parts) < 4 THEN <<>>
    ELSE (IF toLowerCase(parts[1]) \in Range(entityNames) THEN <<>>
          ELSE <<"Relationship references undefined source entity: "
                   \o toLowerCase(parts[1])>>)
         \o (IF toLowerCase(parts[Len(parts)]) \in Range(entityNames) THEN <<>>
             ELSE <<"Relationship references undefined target entity: "
                      \o toLowerCase(parts[Len(parts)])>>)

RECURSIVE referenceErrors_copy(_, _, _)
referenceErrors_copy(entityNames, relationshipMatches, k) ==
    IF k > Len(relationshipMatches) THEN <<>>
    ELSE referenceErrorsOf_copy(entityNames, splitWords(relationshipMatches[k]))
         \o referenceErrors_copy(entityNames, relationshipMatches, k + 1)

validateChecked_copy(structural, more) ==
    IF Len(more) = 0 THEN structural ELSE withErrors(structural, more)

validateMermaidSyntax_copy(mermaidSyntax) ==
    IF mermaidSyntax = "" \/ mermaidSyntax = "erDiagram\n"
    THEN withErrors(validResult, <<"Empty diagram: No entities or relationships defined">>)
    ELSE validateChecked_copy(
           checkStructuralErrors_copy(mermaidSyntax, validResult),
           referenceErrors_copy(entityNamesOf_copy(MatchAll(entityMatchPattern_copy, mermaidSyntax)),
                                MatchAll(relationshipMatchPattern_copy, mermaidSyntax), 1))

emittedSyntax_copy(schema) ==
    "erDiagram\n"
    \o join([i \in 1..Len(schema.tables) |->
               generateEntityDefinition_copy(schema.tables[i])], "")
    \o join([k \in 1..Len(Arr(schema, "relationships")) |->
               generateRelationshipDefinition_copy(schema.relationships[k])], "")

generateMermaidERD_copy(schema) ==
    withWarnings(autoFormatMermaidSyntax_copy(emittedSyntax_copy(schema)),
                 validateMermaidSyntax_copy(autoFormatMermaidSyntax_copy(emittedSyntax_copy(schema))))

(***************************************************************************)
(* The documentation service (src/unnamed/part_004, lines 1-616).  A       *)
(* document is the record of the pieces its template interpolates, in the  *)
(* order of the text; the fixed text between them is left out.             *)
(***************************************************************************)
\* the character U+2713
CheckMark == "[U+2713]"

\* o.f || d for a string field
OrElse(o, f, d) == IF Falsy(Str(o, f)) THEN d ELSE o[f]
\* ${o.f} in a template literal
Tpl(o, f) == IF Has(o, f) THEN o[f] ELSE "undefined"

formatRelationshipType(type) ==
    IF Falsy(type) THEN "Undefined"
    ELSE CASE toUpperCase(type) = "ONE_TO_ONE" -> "One-to-One (1:1)"
           [] toUpperCase(type) = "ONE_TO_MANY" -> "One-to-Many (1:N)"
           [] toUpperCase(type) = "MANY_TO_ONE" -> "Many-to-One (N:1)"
           [] toUpperCase(type) = "MANY_TO_MANY" -> "Many-to-Many (N:M)"
           [] OTHER -> type

getCardinalityFromType(type, side) ==
    IF Falsy(type) THEN "1"
    ELSE CASE toUpperCase(type) = "ONE_TO_ONE" -> "1"
           [] toUpperCase(type) = "ONE_TO_MANY" -> IF side = "source" THEN "1" ELSE "N"
           [] toUpperCase(type) = "MANY_TO_ONE" -> IF side = "source" THEN "N" ELSE "1"
           [] toUpperCase(type) = "MANY_TO_MANY" -> IF side = "source" THEN "M" ELSE "N"
           [] OTHER -> "1"

\* the clock counts milliseconds; toLocaleDateString shows the minute
TicksPerMinute == 60000

formatDate(schema, f) ==
    IF ~Has(schema, f) THEN "Unknown"
    ELSE "minute " \o ToString(schema[f].time \div TicksPerMinute)

\* name.toLowerCase().replace(/\s+/g, '-')
RECURSIVE dashSpaces(_)
dashSpaces(s) ==
    IF s = "" THEN ""
    ELSE IF IsSpace(Char(s, 1))
         THEN IF Len(s) >= 2 /\ IsSpace(Char(s, 2))
              THEN dashSpaces(SubSeq(s, 2, Len(s)))
              ELSE "-" \o dashSpaces(SubSeq(s, 2, Len(s)))
         ELSE Char(s, 1) \o dashSpaces(SubSeq(s, 2, Len(s)))

anchorOf(table) == dashSpaces(toLowerCase(table.name))

\* table.columns.filter(col => col.isForeignKey && col.references)
foreignKeyColumnsOf(table) ==
    Filter(table.columns, LAMBDA col : Truthy(col, "isForeignKey") /\ Has(col, "references"))

\* `${column.references.table}.${column.references.column}` and the two actions
referenceCells(column) ==
    <<column.name,
      Tpl(column.references, "table") \o "." \o Tpl(column.references, "column"),
      OrElse(column.references, "onDelete", "NO ACTION"),
      OrElse(column.references, "onUpdate", "NO ACTION")>>

\* schema.relationships.filter(rel => rel.attributes && ... length > 0)
relationshipsWithAttributes(schema) ==
    Filter(schema.relationships, LAMBDA rel : Len(Arr(rel, "attributes")) > 0)

sourceEntityOf(relationship) ==
    OrElse(relationship, "sourceEntity", Tpl(relationship, "sourceTable"))
targetEntityOf(relationship) ==
    OrElse(relationship, "targetEntity", Tpl(relationship, "targetTable"))

attributeHeading(relationship) ==
    OrElse(relationship, "name", "Relationship") \o " (" \o sourceEntityOf(relationship)
      \o " to " \o targetEntityOf(relationship) \o ")"

attributeCells(attr) ==
    <<Tpl(attr, "name"), OrElse(attr, "dataType", ""), OrElse(attr, "description", "")>>

attributeBlocks(schema) ==
    [i \in 1..Len(relationshipsWithAttributes(schema)) |->
       [heading |-> attributeHeading(relationshipsWithAttributes(schema)[i]),
        rows |-> [j \in 1..Len(relationshipsWithAttributes(schema)[i].attributes) |->
                    attributeCells(relationshipsWithAttributes(schema)[i].attributes[j])]]]

notesOf(schema) ==
    [createdAt |-> formatDate(schema, "createdAt"),
     updatedAt |-> formatDate(schema, "updatedAt"),
     version |-> IF Has(schema, "version") /\ schema.version # 0
                 THEN schema.version ELSE 1]

\* generateMarkdownDocumentation
markdownMark(flag) == IF flag THEN CheckMark ELSE ""

markdownEntityType(table) ==
    IF Truthy(table, "isWeakEntity")
    THEN "**Entity Type:** Weak Entity *(depends on another entity for identification)*"
    ELSE IF Truthy(table, "isLookupTable")
         THEN "**Entity Type:** Lookup/Reference Table"
         ELSE "**Entity Type:** Strong Entity"

markdownColumnRow(column) ==
    <<Tpl(column, "name"), Tpl(column, "dataType"),
      markdownMark(Truthy(column, "isPrimaryKey")),
      markdownMark(Truthy(column, "isForeignKey")),
      markdownMark(NotFalse(column, "isNullable")),
      markdownMark(Truthy(column, "isUnique")),
      OrElse(column, "defaultValue", ""),
      OrElse(column, "description", "")>>

markdownTable(table) ==
    [heading |-> "### " \o table.name,
     description |-> Str(table, "description"),
     entityType |-> markdownEntityType(table),
     columns |-> [j \in 1..Len(table.columns) |-> markdownColumnRow(table.columns[j])],
     foreignKeys |-> [j \in 1..Len(foreignKeyColumnsOf(table)) |->
                        referenceCells(foreignKeyColumnsOf(table)[j])]]

markdownRelationshipRow(relationship) ==
    <<sourceEntityOf(relationship),
      OrElse(relationship, "name", "relates to"),
      targetEntityOf(relationship),
      formatRelationshipType(Str(relationship, "type")),
      OrElse(relationship, "sourceCardinality",
             getCardinalityFromType(Str(relationship, "type"), "source")),
      OrElse(relationship, "targetCardinality",
             getCardinalityFromType(Str(relationship, "type"), "target")),
      markdownMark(Truthy(relationship, "isIdentifying")),
      OrElse(relationship, "description", "")>>

generateMarkdownDocumentation(schema) ==
    [format |-> "markdown",
     title |-> "# Database Schema: " \o schema.name,
     description |-> Str(schema, "description"),
     overview |-> <<Len(schema.tables), Len(schema.relationships)>>,
     contents |-> [i \in 1..Len(schema.tables) |->
                     "[" \o schema.tables[i].name \o "](#" \o anchorOf(schema.tables[i])
                       \o ")"],
     tables |-> [i \in 1..Len(schema.tables) |-> markdownTable(schema.tables[i])],
     relationships |-> [i \in 1..Len(schema.relationships) |->
                          markdownRelationshipRow(schema.relationships[i])],
     relationshipAttributes |-> attributeBlocks(schema),
     notes |-> notesOf(schema)]

\* generateHtmlDocumentation
htmlMark(flag) ==
    IF flag THEN "<span class=\"text-success\">" \o CheckMark \o "</span>" ELSE ""

\* mutant of htmlEntityTypeClass: a lookup table is shown as a strong entity
htmlEntityTypeClass_weakOrStrong(table) ==
    IF Truthy(table, "isWeakEntity") THEN "weak-entity" ELSE "strong-entity"

htmlEntityTypeClass(table) ==
    IF Truthy(table, "isWeakEntity") THEN "weak-entity"
    ELSE IF Truthy(table, "isLookupTable") THEN "lookup-table"
         ELSE "strong-entity"

htmlEntityTypeBadge(table) ==
    IF Truthy(table, "isWeakEntity")
    THEN "<span class=\"entity-type-badge weak-entity-badge\">Weak Entity</span>"
    ELSE IF Truthy(table, "isLookupTable")
         THEN "<span class=\"entity-type-badge lookup-entity-badge\">Lookup Table</span>"
         ELSE "<span class=\"entity-type-badge strong-entity-badge\">Strong Entity</span>"

htmlColumnRow(column) ==
    [class |-> IF Truthy(column, "isPrimaryKey") THEN "primary-key"
               ELSE IF Truthy(column, "isForeignKey") THEN "foreign-key" ELSE "",
     cells |-> <<Tpl(column, "name"), Tpl(column, "dataType"),
                 htmlMark(Truthy(column, "isPrimaryKey")),
                 htmlMark(Truthy(column, "isForeignKey")),
                 htmlMark(NotFalse(column, "isNullable")),
                 htmlMark(Truthy(column, "isUnique")),
                 OrElse(column, "defaultValue", ""),
                 OrElse(column, "description", "")>>]

htmlTable(table) ==
    [class |-> "table-container " \o htmlEntityTypeClass(table),
     id |-> anchorOf(table),
     heading |-> table.name \o " " \o htmlEntityTypeBadge(table),
     description |-> Str(table, "description"),
     columns |-> [j \in 1..Len(table.columns) |-> htmlColumnRow(table.columns[j])],
     foreignKeys |-> [j \in 1..Len(foreignKeyColumnsOf(table)) |->
                        referenceCells(foreignKeyColumnsOf(table)[j])]]

htmlRelationshipRow(relationship) ==
    <<sourceEntityOf(relationship),
      OrElse(relationship, "name", "relates to"),
      targetEntityOf(relationship),
      "<span class=\"relationship-type "
        \o (IF Truthy(relationship, "isIdentifying") THEN "identifying-relationship" ELSE "")
        \o "\">" \o formatRelationshipType(Str(relationship, "type")) \o "</span>",
      OrElse(relationship, "sourceCardinality",
             getCardinalityFromType(Str(relationship, "type"), "source")),
      OrElse(relationship, "targetCardinality",
             getCardinalityFromType(Str(relationship, "type"), "target")),
      htmlMark(Truthy(relationship, "isIdentifying")),
      OrElse(relationship, "description", "")>>

generateHtmlDocumentation(schema, now) ==
    [format |-> "html",
     title |-> "<h1>Database Schema: " \o schema.name \o "</h1>",
     description |-> Str(schema, "description"),
     overview |-> <<Len(schema.tables), Len(schema.relationships)>>,
     contents |-> [i \in 1..Len(schema.tables) |->
                     "<a href=\"#" \o anchorOf(schema.tables[i]) \o "\">"
                       \o schema.tables[i].name \o "</a>"],
     tables |-> [i \in 1..Len(schema.tables) |-> htmlTable(schema.tables[i])],
     relationships |-> [i \in 1..Len(schema.relationships) |->
                          htmlRelationshipRow(schema.relationships[i])],
     relationshipAttributes |-> attributeBlocks(schema),
     notes |-> notesOf(schema),
     generatedOn |-> formatDate([now |-> Date(now)], "now")]

\* exports.generateDocumentation of the service: the switch on the format
generateDocumentation(schema, format, now) ==
    IF toLowerCase(format) = "html" THEN generateHtmlDocumentation(schema, now)
    ELSE generateMarkdownDocumentation(schema)

(***************************************************************************)
(* Inputs                                                                  *)
(***************************************************************************)
MaxEntities == 2
MaxRelationships == 2

Entities ==
    { [name |-> "S"],
      [name |-> "s", attributes |-> <<[name |-> "created_at"], [name |-> "Created At"]>>],
      [description |-> "no name"],
      [name |-> "T", attributes |-> <<[name |-> "S_ID", isPrimaryKey |-> TRUE]>>],
      [name |-> "T", attributes |->
         <<[name |-> "Code", isPrimaryKey |-> TRUE, isNullable |-> FALSE],
           [name |-> "updated_at", dataType |-> "TIMESTAMP"],
           [name |-> "Owner", dataType |-> "ENUM", isForeignKey |-> TRUE]>>] }

Relationships ==
    { [sourceEntity |-> "S", targetEntity |-> "T"],
      [sourceEntity |-> "S", targetEntity |-> "T", type |-> "MANY_TO_ONE"],
      [sourceEntity |-> "S", targetEntity |-> "T", type |-> "many_to_one"],
      [sourceEntity |-> "S", targetEntity |-> "T", type |-> "ONE_TO_ONE",
       isIdentifying |-> TRUE],
      [sourceEntity |-> "S", targetEntity |-> "T", type |-> "MANY_TO_MANY",
       name |-> "joins",
       attributes |-> <<[name |-> "role"],
                        [description |-> "Joined On!", isNullable |-> FALSE]>>],
      [sourceEntity |-> "S", targetEntity |-> "T", type |-> "MANY_TO_MANY",
       isIdentifying |-> TRUE],
      [sourceEntity |-> "S", targetEntity |-> "s", type |-> "MANY_TO_MANY"],
      [sourceTable |-> "s", targetEntity |-> "X", type |-> "ONE_TO_MANY"] }

\* the lists of at most n different elements of S
SeqsUpTo(S, n) ==
    UNION { {q \in [1..k -> S] : \A i, j \in 1..k : i # j => q[i] # q[j]} : k \in 0..n }

ExtractedData ==
    { [entities |-> es, relationships |-> rs] :
        es \in SeqsUpTo(Entities, MaxEntities),
        rs \in SeqsUpTo(Relationships, MaxRelationships) }

Dialects == {"mysql", "postgresql", "sqlite", "SQLServer", "oracle"}

(***************************************************************************)
(* The state machine: one schema-generation request (normalize the         *)
(* extraction result), then one SQL export of the schema it produced.      *)
(***************************************************************************)
VARIABLES
    pc,               \* "extracted", "normalized" or "exported"
    clock,            \* what new Date() returns
    extractedData,    \* the extraction result object handed to generateSchema
    schema,           \* the schema object generateSchema returned, held by the caller
    dialect,          \* the dialect of the SQL export request
    processedSchema,  \* the working schema of generateSQL
    generator,        \* the dialect backend generateSQL selected
    statements,       \* the statements list generateSQL assembled
    language,         \* the language the statements are pretty-printed for
    build,            \* which MermaidGeneratorService file is loaded: "service" or "copy"
    emitted,          \* the text generateMermaidERD assembled before formatting it
    formatted,        \* what autoFormatMermaidSyntax made of the emitted text
    mermaidSyntax,    \* the text generateMermaidERD returned
    reformatted,      \* autoFormatMermaidSyntax applied to the formatted text
    schemas,          \* the Map of schema.model.js: _id -> stored Schema object
    nextId,           \* the nextId counter of schema.model.js
    response,         \* the response the last schema or session request sent
    requests,         \* the export requests in flight, their position and their output
    alone,            \* what each export request returns when it is the only one
    before,           \* the Map of schemas when the export requests arrived
    sessions,         \* the Map of the Session model: _id -> stored Session object
    nextSessionId,    \* the nextId counter of the Session model
    attached          \* per session: the schemas attached to it and the last one saved

vars == <<pc, clock, extractedData, schema, dialect, processedSchema, generator,
          statements, language, build, emitted, formatted, mermaidSyntax, reformatted,
          schemas, nextId, response, requests, alone, before, sessions, nextSessionId,
          attached>>

sqlVars == <<dialect, processedSchema, generator, statements, language>>
diagramVars == <<build, emitted, formatted, mermaidSyntax, reformatted>>
storeVars == <<schemas, nextId, response>>
exportVars == <<requests, alone, before>>
sessionVars == <<sessions, nextSessionId, attached>>
apiVars == <<storeVars, exportVars, sessionVars>>

NoSchema == [tables |-> <<>>, relationships |-> <<>>]

\* new Map() of the two models before any request; no request was answered.
EmptyMap == [k \in {} |-> null]
NoResponse == [handler |-> "", id |-> "", status |-> 0]

NoServer ==
    /\ schemas = EmptyMap
    /\ nextId = 1
    /\ response = NoResponse
    /\ requests = EmptyMap
    /\ alone = EmptyMap
    /\ before = EmptyMap
    /\ sessions = EmptyMap
    /\ nextSessionId = 1
    /\ attached = EmptyMap

Init ==
    /\ pc = "extracted"
    /\ clock = 1
    /\ extractedData \in ExtractedData
    /\ schema = NoSchema
    /\ dialect = ""
    /\ processedSchema = NoSchema
    /\ generator = ""
    /\ statements = <<>>
    /\ language = ""
    /\ build = "service"
    /\ emitted = ""
    /\ formatted = ""
    /\ mermaidSyntax = ""
    /\ reformatted = ""
    /\ NoServer

GenerateSchema ==
    /\ pc = "extracted"
    /\ \E r \in {generateSchema(extractedData, clock)} :
         /\ schema' = r.schema
         /\ extractedData' = r.extractedData
    /\ clock' = clock + 1
    /\ pc' = "normalized"
    /\ UNCHANGED <<sqlVars, diagramVars, apiVars>>

GenerateSQL ==
    /\ pc = "normalized"
    /\ \E d \in Dialects :
         \E r \in {generateSQL("schema" :> schema, "schema", d)} :
           /\ dialect' = d
           /\ schema' = r.heap["schema"]
           /\ processedSchema' = r.processedSchema
           /\ generator' = r.generator
           /\ statements' = r.statements
           /\ language' = r.language
    /\ pc' = "exported"
    /\ UNCHANGED <<clock, extractedData, diagramVars, apiVars>>

Next == GenerateSchema \/ GenerateSQL

Spec == Init /\ [][Next]_vars

(***************************************************************************)
(* The diagram state machine: one schema-generation request, possibly an   *)
(* update of the stored schema that gives its first relationship an        *)
(* explicit cardinality, then one Mermaid export of the stored schema,     *)
(* whose text is run through the auto-formatter once more.                 *)
(***************************************************************************)
MaxDiagramEntities == 2
MaxDiagramRelationships == 1

DiagramEntities ==
    << [name |-> "S"],
       [name |-> "T", attributes |-> <<[name |-> "S_ID", isPrimaryKey |-> TRUE]>>],
       [name |-> "aB"],
       [name |-> "A B"] >>

DiagramRelationships ==
    << [sourceEntity |-> "S", targetEntity |-> "T", type |-> "ONE_TO_ONE"],
       [sourceEntity |-> "S", targetEntity |-> "T", type |-> "ONE_TO_MANY",
        name |-> "x re requiredquired"],
       [sourceEntity |-> "aB", targetEntity |-> "S", type |-> "MANY_TO_ONE"],
       [sourceEntity |-> "S", targetEntity |-> "A B", type |-> "MANY_TO_MANY"] >>

Cardinalities ==
    { [source |-> "many", target |-> "one"],
      [source |-> "one", target |-> "many"],
      [source |-> "zero-or-one", target |-> "zero-or-one"] }

RECURSIVE Pick(_, _, _)
\* the elements of q at the positions of I, in the order of q
Pick(q, I, i) ==
    IF i > Len(q) THEN <<>>
    ELSE (IF i \in I THEN <<q[i]>> ELSE <<>>) \o Pick(q, I, i + 1)

\* the sub-lists of q of at most n elements
SubListsUpTo(q, n) ==
    {Pick(q, I, 1) : I \in {J \in SUBSET (1..Len(q)) : Cardinality(J) <= n}}

DiagramData ==
    { [entities |-> es, relationships |-> rs] :
        es \in SubListsUpTo(DiagramEntities, MaxDiagramEntities),
        rs \in SubListsUpTo(DiagramRelationships, MaxDiagramRelationships) }

Builds == {"service", "copy"}

DiagramInit ==
    /\ pc = "extracted"
    /\ clock = 1
    /\ extractedData \in DiagramData
    /\ schema = NoSchema
    /\ dialect = ""
    /\ processedSchema = NoSchema
    /\ generator = ""
    /\ statements = <<>>
    /\ language = ""
    /\ build \in Builds
    /\ emitted = ""
    /\ formatted = ""
    /\ mermaidSyntax = ""
    /\ reformatted = ""
    /\ NoServer

\* Schema.findByIdAndUpdate: Object.assign(schema, updates), then the timestamp
findByIdAndUpdate(stored, updates, now) ==
    [f \in DOMAIN stored \cup DOMAIN updates \cup {"updatedAt"} |->
       IF f = "updatedAt" THEN Date(now)
       ELSE IF f \in DOMAIN updates THEN updates[f] ELSE stored[f]]

\* updateSchema with a request body that holds the relationships of the stored
\* schema, the first of them given a cardinality object
UpdateSchema ==
    /\ pc = "normalized"
    /\ Len(schema.relationships) > 0
    /\ \E c \in Cardinalities :
         schema' = findByIdAndUpdate(schema,
                     [relationships |->
                        [schema.relationships EXCEPT ![1] = ("cardinality" :> c) @@ @],
                      updatedAt |-> Date(clock)],
                     clock + 1)
    /\ clock' = clock + 2
    /\ pc' = "updated"
    /\ UNCHANGED <<extractedData, sqlVars, diagramVars, apiVars>>

\* generateMermaidERD of the loaded file from the emission on: the emitted text,
\* the formatted text and the returned text
diagramOf(b, e, f) ==
    [emitted |-> e, formatted |-> f,
     mermaidSyntax |-> withWarnings(f, IF b = "copy" THEN validateMermaidSyntax_copy(f)
                                       ELSE validateMermaidSyntax(f))]

autoFormatOf(b, text) ==
    IF b = "copy" THEN autoFormatMermaidSyntax_copy(text) ELSE autoFormatMermaidSyntax(text)

emittedOf(b, sch) ==
    IF b = "copy" THEN emittedSyntax_copy(sch) ELSE emittedSyntax(sch)

\* the export controller's generateMermaidERD on the stored schema
GenerateMermaidERD ==
    /\ pc \in {"normalized", "updated"}
    /\ \E e \in {emittedOf(build, schema)} :
         \E f \in {autoFormatOf(build, e)} :
           \E r \in {diagramOf(build, e, f)} :
             /\ emitted' = r.emitted
             /\ formatted' = r.formatted
             /\ mermaidSyntax' = r.mermaidSyntax
    /\ pc' = "drawn"
    /\ UNCHANGED <<clock, extractedData, schema, sqlVars, build, reformatted, apiVars>>

\* autoFormatMermaidSyntax applied to its own output
AutoFormatAgain ==
    /\ pc = "drawn"
    /\ reformatted' = autoFormatOf(build, formatted)
    /\ pc' = "reformatted"
    /\ UNCHANGED <<apiVars, clock, extractedData, schema, sqlVars, build, emitted, formatted,
                   mermaidSyntax>>

DiagramNext == GenerateSchema \/ UpdateSchema \/ GenerateMermaidERD \/ AutoFormatAgain

DiagramSpec == DiagramInit /\ [][DiagramNext]_vars

(***************************************************************************)
(* The normalizer alone, on extraction results chosen for the lookup-table *)
(* heuristic and the synthesis of columns.                                 *)
(***************************************************************************)
MaxNormalizerEntities == 2
MaxNormalizerRelationships == 1

NormalizerEntities ==
    << [name |-> "S"],
       [name |-> "T", attributes |-> <<[name |-> "S_ID", isPrimaryKey |-> TRUE]>>],
       [name |-> "Log", isLookupTable |-> TRUE, attributes |-> <<[name |-> "at"]>>],
       [name |-> "UserRole", attributes |->
          <<[name |-> "id", isPrimaryKey |-> TRUE], [name |-> "Title"], [name |-> "a"],
            [name |-> "b"], [name |-> "c"], [name |-> "d"]>>],
       [name |-> "Big", attributes |->
          <<[name |-> "id", isPrimaryKey |-> TRUE], [name |-> "name"], [name |-> "a"],
            [name |-> "b"], [name |-> "c"]>>],
       [name |-> "Note", attributes |-> <<[name |-> "id"], [name |-> "Code"]>>] >>

NormalizerRelationships ==
    << [sourceEntity |-> "S", targetEntity |-> "Big", type |-> "ONE_TO_MANY"],
       [sourceEntity |-> "S", targetEntity |-> "T", type |-> "ONE_TO_ONE",
        isIdentifying |-> TRUE] >>

NormalizerData ==
    { [entities |-> es, relationships |-> rs] :
        es \in SubListsUpTo(NormalizerEntities, MaxNormalizerEntities),
        rs \in SubListsUpTo(NormalizerRelationships, MaxNormalizerRelationships) }

NormalizerInit ==
    /\ pc = "extracted"
    /\ clock = 1
    /\ extractedData \in NormalizerData
    /\ schema = NoSchema
    /\ dialect = ""
    /\ processedSchema = NoSchema
    /\ generator = ""
    /\ statements = <<>>
    /\ language = ""
    /\ build = "service"
    /\ emitted = ""
    /\ formatted = ""
    /\ mermaidSyntax = ""
    /\ reformatted = ""
    /\ NoServer

NormalizerNext == GenerateSchema

NormalizerSpec == NormalizerInit /\ [][NormalizerNext]_vars

(***************************************************************************)
(* schema.model.js and schema.controller.js: the schema store and the      *)
(* requests that write and read it.                                        *)
(***************************************************************************)
MaxClock == 6

\* new Schema(data): the object built and the counter afterwards
newSchema(data, counter, now) ==
    [object |->
       [_id |-> IF Falsy(Str(data, "_id")) THEN ToString(counter) ELSE data._id,
        name |-> IF Falsy(Str(data, "name")) THEN "New Schema" ELSE data.name,
        description |-> IF Falsy(Str(data, "description")) THEN "" ELSE data.description,
        tables |-> Arr(data, "tables"),
        relationships |-> Arr(data, "relationships"),
        createdAt |-> IF Has(data, "createdAt") THEN data.createdAt ELSE Date(now),
        updatedAt |-> IF Has(data, "updatedAt") THEN data.updatedAt ELSE Date(now)],
     nextId |-> IF Falsy(Str(data, "_id")) THEN counter + 1 ELSE counter]

\* save(): the Map after this.updatedAt = new Date(); schemas.set(this._id, this)
save(map, object, now) ==
    (object._id :> [object EXCEPT !.updatedAt = Date(now)]) @@ map

\* Schema.findById: schemas.get(id) || null
findById(map, id) == IF id \in DOMAIN map THEN map[id] ELSE null
\* !schema for what findById returned
NotFound(map, id) == id \notin DOMAIN map

\* res.status(s).json({..., schema}): the schema as JSON text carries it
\* (handler and id name the request that was answered)
schemaResponse(handler, id, status, object) ==
    [handler |-> handler, id |-> id, status |-> status, schema |-> JSONCopy(object)]

errorResponse(handler, id, status) ==
    [handler |-> handler, id |-> id, status |-> status]

\* what nlpService.extractEntities hands to the requests of this store
StoreData ==
    { [entities |-> <<[name |-> "S"]>>, relationships |-> <<>>],
      [entities |-> <<[name |-> "S"],
                      [name |-> "T", attributes |->
                         <<[name |-> "S_ID", isPrimaryKey |-> TRUE]>>]>>,
       relationships |-> <<[sourceEntity |-> "S", targetEntity |-> "T",
                            type |-> "MANY_TO_MANY"]>>] }

\* request bodies of updateSchema
UpdateBodies ==
    { [name |-> "Renamed"],
      [_id |-> "7"],
      [tables |-> <<>>, description |-> "emptied"] }

StoreIds == {"1", "2", "7"}

StoreInit ==
    /\ pc = "serving"
    /\ clock = 1
    /\ extractedData = [entities |-> <<>>, relationships |-> <<>>]
    /\ schema = NoSchema
    /\ dialect = ""
    /\ processedSchema = NoSchema
    /\ generator = ""
    /\ statements = <<>>
    /\ language = ""
    /\ build = "service"
    /\ emitted = ""
    /\ formatted = ""
    /\ mermaidSyntax = ""
    /\ reformatted = ""
    /\ NoServer

\* exports.generateSchema of schema.controller.js with a prompt the NLP
\* service answers with data; schema keeps what the normalizer returned
GenerateSchemaRequest(data) ==
    /\ pc = "serving"
    /\ clock < MaxClock
    /\ \E r \in {generateSchema(data, clock)} :
       \E n \in {newSchema(r.schema, nextId, clock)} :
         /\ extractedData' = r.extractedData
         /\ schema' = r.schema
         /\ schemas' = save(schemas, n.object, clock + 1)
         /\ nextId' = n.nextId
         /\ response' = schemaResponse("generateSchema", "", 201,
                                       schemas'[n.object._id])
    /\ clock' = clock + 2
    /\ UNCHANGED <<pc, sqlVars, diagramVars, exportVars, sessionVars>>

\* exports.getSchemaById
GetSchemaById(id) ==
    /\ pc = "serving"
    /\ response' = IF NotFound(schemas, id)
                   THEN errorResponse("getSchemaById", id, 404)
                   ELSE schemaResponse("getSchemaById", id, 200, findById(schemas, id))
    /\ UNCHANGED <<pc, clock, extractedData, schema, sqlVars, diagramVars,
                   schemas, nextId, exportVars, sessionVars>>

\* exports.updateSchema
UpdateSchemaRequest(id, body) ==
    /\ pc = "serving"
    /\ clock < MaxClock
    /\ IF NotFound(schemas, id)
       THEN /\ response' = errorResponse("updateSchema", id, 404)
            /\ UNCHANGED <<schemas, clock>>
       ELSE /\ schemas' = [schemas EXCEPT ![id] =
                             findByIdAndUpdate(@, ("updatedAt" :> Date(clock)) @@ body,
                                               clock + 1)]
            /\ response' = schemaResponse("updateSchema", id, 200, schemas'[id])
            /\ clock' = clock + 2
    /\ UNCHANGED <<pc, extractedData, schema, sqlVars, diagramVars, nextId,
                   exportVars, sessionVars>>

StoreNext ==
    \/ \E data \in StoreData : GenerateSchemaRequest(data)
    \/ \E id \in StoreIds : GetSchemaById(id)
    \/ \E id \in StoreIds, body \in UpdateBodies : UpdateSchemaRequest(id, body)

StoreSpec == StoreInit /\ [][StoreNext]_vars

(***************************************************************************)
(* The export controller (src/unnamed/part_003): requests for SQL, for the *)
(* Mermaid diagram and for the documentation of a stored schema.  A        *)
(* handler runs up to its await of Schema.findById, and from there to its  *)
(* response: the handlers of requests in flight interleave at that await.  *)
(***************************************************************************)
MaxRequests == 2

\* the requests a client can send for the stored schema: handler and the
\* dialect or format of its body
RequestKinds ==
    { [handler |-> "generateSQL", option |-> "mysql"],
      [handler |-> "generateSQL", option |-> "SQLite"],
      [handler |-> "generateMermaidERD", option |-> ""],
      [handler |-> "generateDocumentation", option |-> "markdown"],
      [handler |-> "generateDocumentation", option |-> "html"] }

\* (the supportedDialects of the handler lists what the service lists)
supportedFormats == {"markdown", "html", "pdf"}

\* the Map as generateSQL leaves it: the objects the stored references name
storeAfter(map, heap) == [k \in DOMAIN map |-> heap[k]]

\* exports.generateSQL after Schema.findById found the schema
generateSQLFound(map, id, dialectAsked) ==
    IF toLowerCase(dialectAsked) \notin supportedDialects
    THEN [schemas |-> map, response |-> [status |-> 400]]
    ELSE LET r == generateSQL(map, id, dialectAsked)
         IN [schemas |-> storeAfter(map, r.heap),
             response |-> [status |-> 200,
                           sql |-> [statements |-> r.statements,
                                    language |-> r.language],
                           dialect |-> dialectAsked]]

\* exports.generateMermaidERD after Schema.findById found the schema; erd is
\* what mermaidGeneratorService.generateMermaidERD(schema) returns
generateMermaidERDFound(map, id, erd) ==
    [schemas |-> map,
     response |-> [status |-> 200,
                   mermaidSyntax |-> erd,
                   schema |-> JSONCopy(map[id]),
                   tables |-> map[id].tables]]

\* exports.generateDocumentation after Schema.findById found the schema
generateDocumentationFound(map, id, format, now) ==
    IF toLowerCase(format) \notin supportedFormats
    THEN [schemas |-> map, response |-> [status |-> 400]]
    ELSE [schemas |-> map,
          response |-> [status |-> 200,
                        documentation |-> generateDocumentation(map[id], format, now),
                        format |-> format]]

exportFound(kind, map, id, now, erd) ==
    CASE kind.handler = "generateSQL" -> generateSQLFound(map, id, kind.option)
      [] kind.handler = "generateMermaidERD" -> generateMermaidERDFound(map, id, erd)
      [] kind.handler = "generateDocumentation" ->
           generateDocumentationFound(map, id, kind.option, now)

\* what nlpService.extractEntities handed to the request that stored the schema
ExportData ==
    { [entities |-> <<[name |-> "S"],
                      [name |-> "T", attributes |->
                         <<[name |-> "S_ID", isPrimaryKey |-> TRUE]>>]>>,
       relationships |-> <<[sourceEntity |-> "S", targetEntity |-> "T",
                            type |-> "MANY_TO_MANY", name |-> "joins",
                            attributes |-> <<[name |-> "role"]>>]>>],
      [entities |-> <<[name |-> "S"],
                      [name |-> "T", attributes |->
                         <<[name |-> "Code", isPrimaryKey |-> TRUE]>>]>>,
       relationships |-> <<[sourceEntity |-> "S", targetEntity |-> "T",
                            type |-> "ONE_TO_MANY"]>>],
      [entities |-> <<[name |-> "S"], [name |-> "T"]>>,
       relationships |-> <<[sourceEntity |-> "S", targetEntity |-> "T",
                            type |-> "ONE_TO_MANY", isIdentifying |-> TRUE]>>] }

\* the bodies of the updateSchema request a client sends after editing the
\* stored schema: nothing edited, all tables but the first deleted, the
\* cardinality of the source end of every relationship set
ExportBodies(stored) ==
    { [name |-> stored.name],
      [tables |-> SubSeq(stored.tables, 1, 1)],
      [relationships |->
         [i \in 1..Len(stored.relationships) |->
            ("sourceCardinality" :> "0..1") @@ stored.relationships[i]]] }

\* the server after the generateSchema request for one of the data and the
\* updateSchema request with one of the bodies, and the requests that arrive
ExportInit ==
    /\ pc = "serving"
    /\ clock = 5
    /\ nextId = 2
    /\ \E data \in ExportData :
       \E r \in {generateSchema(data, 1)} :
       \E n \in {newSchema(r.schema, 1, 1)} :
       \E saved \in {save(EmptyMap, n.object, 2)} :
       \E body \in ExportBodies(saved["1"]) :
       \E updated \in {[saved EXCEPT !["1"] =
                          findByIdAndUpdate(@, ("updatedAt" :> Date(3)) @@ body, 4)]} :
       \E e \in {emittedOf("service", updated["1"])} :
       \E f \in {autoFormatOf("service", e)} :
       \E erd \in {diagramOf("service", e, f)} :
       \E kinds \in {K \in SUBSET RequestKinds : Cardinality(K) \in 1..MaxRequests} :
         /\ extractedData = r.extractedData
         /\ schema = r.schema
         /\ schemas = updated
         /\ before = updated
         /\ response = schemaResponse("updateSchema", "1", 200, updated["1"])
         /\ requests = [k \in kinds |-> [pc |-> "new"]]
         /\ alone = [k \in kinds |->
                       exportFound(k, updated, "1", 5, erd.mermaidSyntax).response]
    /\ sessions = EmptyMap
    /\ nextSessionId = 1
    /\ attached = EmptyMap
    /\ dialect = ""
    /\ processedSchema = NoSchema
    /\ generator = ""
    /\ statements = <<>>
    /\ language = ""
    /\ build = "service"
    /\ emitted = ""
    /\ formatted = ""
    /\ mermaidSyntax = ""
    /\ reformatted = ""

\* a handler up to "const schema = await Schema.findById(schemaId)" and the
\* test of what it found; the schemaId of the body is "1"
FindSchema(k) ==
    /\ pc = "serving"
    /\ k \in DOMAIN requests
    /\ requests[k].pc = "new"
    /\ requests' = [requests EXCEPT ![k] =
                      IF NotFound(schemas, "1")
                      THEN [pc |-> "done", response |-> [status |-> 404]]
                      ELSE [pc |-> "found", schema |-> "1"]]
    /\ UNCHANGED <<pc, clock, extractedData, schema, sqlVars, diagramVars, storeVars,
                   alone, before, sessionVars>>

\* the rest of the handler: the generator runs on the object found and the
\* response is sent
RespondToExport(k) ==
    /\ pc = "serving"
    /\ k \in DOMAIN requests
    /\ requests[k].pc = "found"
    /\ \E e \in {IF k.handler = "generateMermaidERD"
                 THEN emittedOf(build, schemas[requests[k].schema]) ELSE ""} :
       \E f \in {autoFormatOf(build, e)} :
       \E erd \in {diagramOf(build, e, f)} :
       \E r \in {exportFound(k, schemas, requests[k].schema, clock, erd.mermaidSyntax)} :
         /\ schemas' = r.schemas
         /\ requests' = [requests EXCEPT ![k] = [pc |-> "done", response |-> r.response]]
    /\ UNCHANGED <<pc, clock, extractedData, schema, sqlVars, diagramVars, nextId,
                   response, alone, before, sessionVars>>

ExportNext ==
    \/ \E k \in RequestKinds : FindSchema(k)
    \/ \E k \in RequestKinds : RespondToExport(k)

ExportSpec == ExportInit /\ [][ExportNext]_vars

(***************************************************************************)
(* The Session model (src/backend/src/server.js) and session.controller.js *)
(*                                                                         *)
(* An element of session.schemas, and activeSchemaId, is a string (an id), *)
(* a reference to a stored Schema object (named by the key the object is   *)
(* stored under), or null.                                                 *)
(***************************************************************************)
MaxSessionClock == 11

IdValue(id) == [type |-> "string", value |-> id]
ObjectValue(key) == [type |-> "object", value |-> key]
NullValue == [type |-> "null", value |-> ""]

\* new Session(data)
newSession(data, counter, now) ==
    [object |->
       [_id |-> ToString(counter),
        name |-> IF Falsy(Str(data, "name")) THEN "New Session" ELSE data.name,
        description |-> Str(data, "description"),
        prompt |-> Str(data, "prompt"),
        schemas |-> Arr(data, "schemas"),
        activeSchemaId |-> data.activeSchemaId,
        createdAt |-> Date(now),
        updatedAt |-> Date(now)],
     nextId |-> counter + 1]

\* Schema.findById(value): schemas.get(value) || null, for a value that is a
\* string, an object or null (a Map finds nothing under an object or null)
findSchema(map, value) ==
    IF value.type = "string" /\ value.value \in DOMAIN map
    THEN ObjectValue(value.value) ELSE NullValue

\* populate('schemas'): this.schemas becomes the list of the objects found
populateSchemas(map, session) ==
    [session EXCEPT !.schemas =
       Filter([i \in 1..Len(session.schemas) |-> findSchema(map, session.schemas[i])],
              LAMBDA found : found # NullValue)]

\* populate('activeSchemaId')
populateActiveSchemaId(map, session) ==
    IF session.activeSchemaId = NullValue THEN session
    ELSE [session EXCEPT !.activeSchemaId = findSchema(map, @)]

\* res.json({session}): an id is sent as it is, an object as its JSON text
sentValue(map, value) ==
    IF value.type = "object"
    THEN [type |-> "object", value |-> JSONCopy(map[value.value])]
    ELSE value

sessionResponse(handler, id, status, map, session) ==
    [handler |-> handler, id |-> id, status |-> status,
     session |-> [session EXCEPT
                    !.schemas = [i \in 1..Len(@) |-> sentValue(map, @[i])],
                    !.activeSchemaId = sentValue(map, @),
                    !.createdAt = toJSON(@),
                    !.updatedAt = toJSON(@)]]

\* the schemaId of a request body: an id of the store, an unknown id, none
SessionSchemaIds == {"1", "2", "9"}
SessionIds == {"1", "2"}

\* the data of the two generateSchema requests that filled the store
SessionData ==
    <<[entities |-> <<[name |-> "S"]>>, relationships |-> <<>>],
      [entities |-> <<[name |-> "T"]>>, relationships |-> <<>>]>>

\* the server after the two generateSchema requests
SessionInit ==
    /\ pc = "serving"
    /\ clock = 5
    /\ nextId = 3
    /\ \E r1 \in {generateSchema(SessionData[1], 1)} :
       \E n1 \in {newSchema(r1.schema, 1, 1)} :
       \E r2 \in {generateSchema(SessionData[2], 3)} :
       \E n2 \in {newSchema(r2.schema, n1.nextId, 3)} :
       \E saved \in {save(save(EmptyMap, n1.object, 2), n2.object, 4)} :
         /\ extractedData = r2.extractedData
         /\ schema = r2.schema
         /\ schemas = saved
         /\ response = schemaResponse("generateSchema", "", 201, saved["2"])
    /\ requests = EmptyMap
    /\ alone = EmptyMap
    /\ before = EmptyMap
    /\ sessions = EmptyMap
    /\ nextSessionId = 1
    /\ attached = EmptyMap
    /\ dialect = ""
    /\ processedSchema = NoSchema
    /\ generator = ""
    /\ statements = <<>>
    /\ language = ""
    /\ build = "service"
    /\ emitted = ""
    /\ formatted = ""
    /\ mermaidSyntax = ""
    /\ reformatted = ""

\* exports.createSession; schemaId "" is a body without schemaId
CreateSession(schemaId) ==
    /\ pc = "serving"
    /\ clock < MaxSessionClock
    /\ LET found == schemaId # "" /\ ~NotFound(schemas, schemaId)
           sessionData ==
             [name |-> "New Session",
              schemas |-> IF found THEN <<IdValue(schemas[schemaId]._id)>> ELSE <<>>,
              activeSchemaId |-> IF found THEN IdValue(schemas[schemaId]._id)
                                 ELSE NullValue]
           n == newSession(sessionData, nextSessionId, clock)
       IN /\ sessions' = save(sessions, n.object, clock + 1)
          /\ nextSessionId' = n.nextId
          /\ attached' = (n.object._id :>
                            [schemas |-> IF found THEN {schemaId} ELSE {},
                             active |-> IF found THEN schemaId ELSE ""]) @@ attached
          /\ response' = sessionResponse("createSession", "", 201, schemas,
                                         sessions'[n.object._id])
    /\ clock' = clock + 2
    /\ UNCHANGED <<pc, extractedData, schema, sqlVars, diagramVars, schemas, nextId,
                   exportVars>>

\* exports.getSessionById
GetSessionById(id) ==
    /\ pc = "serving"
    /\ IF NotFound(sessions, id)
       THEN /\ response' = errorResponse("getSessionById", id, 404)
            /\ UNCHANGED sessions
       ELSE /\ sessions' = [sessions EXCEPT ![id] =
                              populateActiveSchemaId(schemas, populateSchemas(schemas, @))]
            /\ response' = sessionResponse("getSessionById", id, 200, schemas,
                                           sessions'[id])
    /\ UNCHANGED <<pc, clock, extractedData, schema, sqlVars, diagramVars, schemas,
                   nextId, exportVars, nextSessionId, attached>>

\* session.schemas.includes(schema._id)
includesId(list, id) == \E i \in 1..Len(list) : list[i] = IdValue(id)

\* exports.saveSession
SaveSession(id, schemaId) ==
    /\ pc = "serving"
    /\ clock < MaxSessionClock
    /\ IF NotFound(sessions, id) \/ NotFound(schemas, schemaId)
       THEN /\ response' = errorResponse("saveSession", id, 404)
            /\ UNCHANGED <<sessions, attached, clock>>
       ELSE /\ sessions' =
                 [sessions EXCEPT ![id] =
                    [@ EXCEPT
                       !.schemas = IF includesId(@, schemas[schemaId]._id) THEN @
                                   ELSE Append(@, IdValue(schemas[schemaId]._id)),
                       !.activeSchemaId = IdValue(schemas[schemaId]._id),
                       !.updatedAt = Date(clock + 1)]]
            /\ attached' = [attached EXCEPT ![id] =
                              [schemas |-> @.schemas \cup {schemaId},
                               active |-> schemaId]]
            /\ response' = sessionResponse("saveSession", id, 200, schemas, sessions'[id])
            /\ clock' = clock + 2
    /\ UNCHANGED <<pc, extractedData, schema, sqlVars, diagramVars, schemas, nextId,
                   exportVars, nextSessionId>>

SessionNext ==
    \/ \E schemaId \in SessionSchemaIds \cup {""} : CreateSession(schemaId)
    \/ \E id \in SessionIds : GetSessionById(id)
    \/ \E id \in SessionIds, schemaId \in SessionSchemaIds : SaveSession(id, schemaId)

SessionSpec == SessionInit /\ [][SessionNext]_vars

(***************************************************************************)
(* Properties                                                              *)
(***************************************************************************)
Normalized == pc \in {"normalized", "exported"}
Exported == pc = "exported"

TableNames(sch) == {sch.tables[i].name : i \in 1..Len(sch.tables)}
TablesNamed(sch, n) == {i \in 1..Len(sch.tables) : sch.tables[i].name = n}
ColumnsNamed(table, n) == {j \in 1..Len(table.columns) : table.columns[j].name = n}
\* the table a name denotes to the code: tables.find(t => t.name === n)
TableNamed(sch, n) == sch.tables[CHOOSE i \in TablesNamed(sch, n) :
                                   \A k \in TablesNamed(sch, n) : i <= k]
References(col, n) == IsFK(col) /\ Has(col, "references") /\ col.references.table = n
cascade(refTable, refColumn) ==
    [table |-> refTable, column |-> refColumn, onDelete |-> "CASCADE", onUpdate |-> "CASCADE"]

\* C1: every table of the schema returned by generateSchema has at least one
\* column with isPrimaryKey = true.
C1_EveryTableHasPrimaryKey ==
    Normalized =>
      \A i \in 1..Len(schema.tables) :
        \E j \in 1..Len(schema.tables[i].columns) : IsPK(schema.tables[i].columns[j])

\* C1 witness: an entity with attributes, none of them a primary key, has been
\* normalized and its table starts with the synthesized id column.
C1_Witness ==
    /\ pc = "normalized"
    /\ \E i \in 1..Len(extractedData.entities) :
         LET attributes == Arr(extractedData.entities[i], "attributes") IN
         /\ Len(attributes) > 0
         /\ \A k \in 1..Len(attributes) : ~Truthy(attributes[k], "isPrimaryKey")
         /\ schema.tables[i].columns[1] = idColumn

\* C2: every table of the normalized schema contains exactly one column named
\* created_at and exactly one column named updated_at.
C2_TimestampsExactlyOnce ==
    Normalized =>
      \A i \in 1..Len(schema.tables) :
        /\ Cardinality(ColumnsNamed(schema.tables[i], "created_at")) = 1
        /\ Cardinality(ColumnsNamed(schema.tables[i], "updated_at")) = 1

\* the relationships of the normalized schema between the tables of rel, in
\* either direction
SamePair(rel) ==
    {k \in 1..Len(schema.relationships) :
       {schema.relationships[k].sourceTable, schema.relationships[k].targetTable}
         = {rel.sourceTable, rel.targetTable}}

\* C3: for every MANY_TO_MANY relationship between S and T of the normalized
\* schema (identifying ones and several over the same pair included, no
\* relationship of another type over the pair), the schema SQL generation
\* works on has exactly one junction table named S_T and neither S nor T has a
\* foreign-key column referencing the other.
C3_JunctionAndNoDirectForeignKey ==
    Exported =>
      \A r \in 1..Len(schema.relationships) :
        LET rel == schema.relationships[r]
            S == rel.sourceTable
            T == rel.targetTable
        IN (/\ rel.type = "MANY_TO_MANY"
            /\ \A k \in SamePair(rel) : schema.relationships[k].type = "MANY_TO_MANY")
           =>
           /\ Cardinality({i \in TablesNamed(processedSchema, S \o "_" \o T) :
                             Truthy(processedSchema.tables[i], "isJunctionTable")}) = 1
           /\ \A i \in TablesNamed(processedSchema, S) :
                \A j \in 1..Len(processedSchema.tables[i].columns) :
                  ~References(processedSchema.tables[i].columns[j], T)
           /\ \A i \in TablesNamed(processedSchema, T) :
                \A j \in 1..Len(processedSchema.tables[i].columns) :
                  ~References(processedSchema.tables[i].columns[j], S)

\* the primary-key columns of a table, in order
PrimaryKeyColumns(table) == Filter(table.columns, IsPK)

\* C4: the junction table synthesized for a MANY_TO_MANY relationship between S
\* and T (S = T allowed) has a primary key of exactly two distinctly named
\* columns, the first referencing S's primary key and the second T's, both
\* non-nullable foreign keys with CASCADE rules, named S_id and T_id when both
\* primary keys are named id; the relationship attributes are non-key columns
\* and created_at / updated_at are present.
C4_JunctionTableShape ==
    Exported =>
      \A r \in 1..Len(schema.relationships) :
        LET rel == schema.relationships[r]
            S == rel.sourceTable
            T == rel.targetTable
            synthesized == {i \in TablesNamed(processedSchema, S \o "_" \o T) :
                              Truthy(processedSchema.tables[i], "isJunctionTable")}
        IN rel.type = "MANY_TO_MANY" =>
           \A i \in synthesized :
             LET junction == processedSchema.tables[i]
                 pk == PrimaryKeyColumns(junction)
                 sourcePK == primaryKeyOf(TableNamed(schema, S), idColumn)
                 targetPK == primaryKeyOf(TableNamed(schema, T), idColumn)
             IN /\ Len(pk) = 2
                /\ pk[1].name # pk[2].name
                /\ pk[1].references = cascade(S, sourcePK.name)
                /\ pk[2].references = cascade(T, targetPK.name)
                /\ \A k \in 1..2 : IsFK(pk[k]) /\ ~pk[k].isNullable
                /\ (sourcePK.name = "id" /\ targetPK.name = "id")
                     => pk[1].name = S \o "_id" /\ pk[2].name = T \o "_id"
                /\ \A a \in 1..Len(rel.attributes) :
                     \E j \in ColumnsNamed(junction, rel.attributes[a].name) :
                       ~IsPK(junction.columns[j]) /\ ~IsFK(junction.columns[j])
                /\ ColumnsNamed(junction, "created_at") # {}
                /\ ColumnsNamed(junction, "updated_at") # {}

\* what the rewrite of C5 makes of a relationship list: source table, target
\* table and type of every relationship, a MANY_TO_MANY one replaced at its
\* position by two ONE_TO_MANY ones into the junction table
RECURSIVE RewrittenEnds(_)
RewrittenEnds(rels) ==
    IF rels = <<>> THEN <<>>
    ELSE LET rel == Head(rels)
             junction == rel.sourceTable \o "_" \o rel.targetTable
         IN (IF rel.type = "MANY_TO_MANY"
             THEN << <<rel.sourceTable, junction, "ONE_TO_MANY">>,
                     <<rel.targetTable, junction, "ONE_TO_MANY">> >>
             ELSE << <<rel.sourceTable, rel.targetTable, rel.type>> >>)
            \o RewrittenEnds(Tail(rels))

Ends(rels) ==
    [k \in 1..Len(rels) |-> <<rels[k].sourceTable, rels[k].targetTable, rels[k].type>>]

\* C5: after preprocessing the working schema has no MANY_TO_MANY relationship;
\* every MANY_TO_MANY relationship of the input schema has been replaced, at its
\* position, by two ONE_TO_MANY relationships into the junction table, one from
\* the source table and one from the target table.
C5_NoManyToManyAfterPreprocessing ==
    Exported =>
      /\ \A k \in 1..Len(processedSchema.relationships) :
           processedSchema.relationships[k].type # "MANY_TO_MANY"
      /\ Ends(processedSchema.relationships) = RewrittenEnds(schema.relationships)

\* C6: generateSQL leaves the schema object passed by the caller unchanged, for
\* every dialect: the step of the SQL export keeps the caller's schema equal to
\* its value before the call.
C6_GenerateSQLKeepsCallerSchema ==
    [][pc = "normalized" => schema' = schema]_vars

\* C6 witness: an export has run on a schema with a MANY_TO_MANY relationship and
\* its working schema has a junction table that the caller's schema lacks.
C6_Witness ==
    /\ Exported
    /\ \E k \in 1..Len(schema.relationships) : schema.relationships[k].type = "MANY_TO_MANY"
    /\ \E i \in 1..Len(processedSchema.tables) :
         /\ Truthy(processedSchema.tables[i], "isJunctionTable")
         /\ processedSchema.tables[i].name \notin TableNames(schema)
    /\ Len(processedSchema.relationships) > Len(schema.relationships)

\* the identifying relationships of the normalized schema from table S to table T
IdentifyingBetween(S, T) ==
    {k \in 1..Len(schema.relationships) :
       /\ schema.relationships[k].isIdentifying
       /\ schema.relationships[k].sourceTable = S
       /\ schema.relationships[k].targetTable = T}

\* table recv has the foreign-key column the normalizer places for a reference
\* to table ref: named <ref>_id, typed as the referenced primary-key column,
\* isForeignKey, nullable, with CASCADE rules
HasPlacedForeignKey(recv, ref) ==
    \E j \in ColumnsNamed(TableNamed(schema, recv), ref \o "_id") :
      LET col == TableNamed(schema, recv).columns[j] IN
      /\ IsFK(col)
      /\ Has(col, "references")
      /\ \E p \in 1..Len(TableNamed(schema, ref).columns) :
           LET pk == TableNamed(schema, ref).columns[p] IN
           /\ IsPK(pk)
           /\ col.references = cascade(ref, pk.name)
           /\ col.dataType = pk.dataType
      /\ (IdentifyingBetween(ref, recv) = {} => col.isNullable)

\* C7: for every relationship from S to T, normalization places a foreign-key
\* column on T for ONE_TO_MANY and ONE_TO_ONE, on S for MANY_TO_ONE and on
\* neither for MANY_TO_MANY (when only non-identifying MANY_TO_MANY
\* relationships link the pair); the column is named <referenced_table>_id, has
\* the referenced primary key's data type, isForeignKey = true, isNullable =
\* true (unless an identifying relationship promoted it) and CASCADE
\* references -- also when the receiving table already has an attribute of
\* that name.
C7_ForeignKeyPlacement ==
    Normalized =>
      \A r \in 1..Len(schema.relationships) :
        LET rel == schema.relationships[r]
            S == rel.sourceTable
            T == rel.targetTable
        IN /\ rel.type \in {"ONE_TO_MANY", "ONE_TO_ONE"} => HasPlacedForeignKey(T, S)
           /\ rel.type = "MANY_TO_ONE" => HasPlacedForeignKey(S, T)
           /\ (/\ rel.type = "MANY_TO_MANY"
               /\ \A k \in SamePair(rel) :
                    /\ schema.relationships[k].type = "MANY_TO_MANY"
                    /\ ~schema.relationships[k].isIdentifying)
              => /\ \A j \in 1..Len(TableNamed(schema, S).columns) :
                      ~References(TableNamed(schema, S).columns[j], T)
                 /\ \A j \in 1..Len(TableNamed(schema, T).columns) :
                      ~References(TableNamed(schema, T).columns[j], S)

\* the columns of every table of a schema, as a set
ColumnsOf(sch) ==
    UNION {{sch.tables[i].columns[j] : j \in 1..Len(sch.tables[i].columns)} :
             i \in 1..Len(sch.tables)}

\* C11: in the normalized schema, and in the working schema of SQL generation,
\* every column with isForeignKey = true carries a references object naming a
\* table and a column, columns built from input attributes flagged
\* isForeignKey included.
C11_ForeignKeysCarryReferences ==
    /\ Normalized =>
         \A col \in {c \in ColumnsOf(schema) : IsFK(c)} :
           /\ Has(col, "references")
           /\ Str(col.references, "table") # ""
           /\ Str(col.references, "column") # ""
    /\ Exported =>
         \A col \in {c \in ColumnsOf(processedSchema) : IsFK(c)} :
           /\ Has(col, "references")
           /\ Str(col.references, "table") # ""
           /\ Str(col.references, "column") # ""

\* C12: in the normalized schema every column with isPrimaryKey = true has
\* isNullable = false, whether declared by an attribute, synthesized (id,
\* partial_id) or promoted by the identifying-relationship post-pass.
C12_PrimaryKeysNotNullable ==
    Normalized => \A col \in {c \in ColumnsOf(schema) : IsPK(c)} : ~col.isNullable

RelationshipTypes == {"ONE_TO_ONE", "ONE_TO_MANY", "MANY_TO_ONE", "MANY_TO_MANY"}

\* C13: every relationship of the normalized schema has a type that is one of
\* ONE_TO_ONE, ONE_TO_MANY, MANY_TO_ONE, MANY_TO_MANY whatever type string the
\* input carried, and the foreign-key column of that recorded type is on the
\* table that type names: T.<s>_id for ONE_TO_MANY and ONE_TO_ONE, S.<t>_id for
\* MANY_TO_ONE.
C13_RelationshipTypeIsOneOfFour ==
    Normalized =>
      \A r \in 1..Len(schema.relationships) :
        LET rel == schema.relationships[r]
            S == TableNamed(schema, rel.sourceTable)
            T == TableNamed(schema, rel.targetTable)
        IN /\ rel.type \in RelationshipTypes
           /\ rel.type \in {"ONE_TO_MANY", "ONE_TO_ONE"}
                => ColumnsNamed(T, toLowerCase(S.name) \o "_id") # {}
           /\ rel.type = "MANY_TO_ONE"
                => ColumnsNamed(S, toLowerCase(T.name) \o "_id") # {}

categoryRank ==
    [header |-> 1, drop |-> 2, enum |-> 3, table |-> 4, alter |-> 5, index |-> 6,
     view |-> 7, procedure |-> 8, trigger |-> 9, insert |-> 10, footer |-> 11]

\* the tables the statements of one category are about, in statement order
TablesOfKind(kind) ==
    LET sel == Filter(statements, LAMBDA st : st.kind = kind)
    IN [k \in 1..Len(sel) |-> sel[k].table]

KindsEmitted == {statements[k].kind : k \in 1..Len(statements)}

\* C15: the statements list of generateSQL starts with the header and is ordered
\* header, DROPs, enum types, CREATE TABLEs, ALTER TABLE foreign keys, indexes,
\* views, procedures, triggers, seed INSERTs, footer: no statement of a later
\* category precedes one of an earlier category; there is one CREATE TABLE per
\* table of the working schema, junction tables included, in table order, and
\* the seed INSERTs are about tables with isLookupTable only.
C15_StatementOrder ==
    Exported =>
      /\ Len(statements) >= 1
      /\ \A k \in 1..Len(statements) : statements[k].kind = "header" <=> k = 1
      /\ \A i, j \in 1..Len(statements) :
           i < j => categoryRank[statements[i].kind] <= categoryRank[statements[j].kind]
      /\ TablesOfKind("table")
           = [i \in 1..Len(processedSchema.tables) |-> processedSchema.tables[i].name]
      /\ \A k \in 1..Len(statements) :
           statements[k].kind = "insert" =>
             \E i \in 1..Len(processedSchema.tables) :
               /\ processedSchema.tables[i].name = statements[k].table
               /\ isLookupTable(processedSchema.tables[i])
      /\ \A k \in 1..Len(statements) :
           statements[k].kind = "footer" => k = Len(statements)

\* C15 witness: a script with DROP, CREATE TABLE (a junction table among them),
\* ALTER TABLE, index, view, trigger and seed statements has been assembled.
C15_Witness ==
    /\ Exported
    /\ {"drop", "table", "alter", "index", "view", "trigger", "insert"} \subseteq KindsEmitted
    /\ \E i \in 1..Len(processedSchema.tables) : isJunctionTable(processedSchema.tables[i])
    /\ Len(processedSchema.tables) >= 3

\* relationship.sourceEntity / targetEntity (or sourceTable / targetTable) names
\* a table built from the entities: case-insensitive match after table-name
\* normalization
NamesBuiltTable(data, entityName) ==
    /\ entityName # ""
    /\ \E i \in 1..Len(Arr(data, "entities")) :
         toLowerCase(transformTableName(Str(data.entities[i], "name")))
           = toLowerCase(transformTableName(entityName))

Resolvable(data, rel) ==
    /\ NamesBuiltTable(data, endpointName(rel, "sourceEntity", "sourceTable"))
    /\ NamesBuiltTable(data, endpointName(rel, "targetEntity", "targetTable"))

\* the extraction result without the relationships whose endpoints match no table
WithoutUnresolvable(data) ==
    LET resolvable(rel) == Resolvable(data, rel)
    IN IF Has(data, "relationships")
       THEN [data EXCEPT !.relationships = Filter(@, resolvable)]
       ELSE data

\* C8: a relationship whose source or target matches no built table is dropped
\* without failing and without adding a column to any table (the schema is the
\* one obtained without that relationship); every relationship of the returned
\* schema has sourceTable and targetTable naming tables of the schema.
C8_UnresolvableRelationshipsDropped ==
    pc = "normalized" =>
      /\ schema = generateSchema(WithoutUnresolvable(extractedData),
                                 schema.createdAt.time).schema
      /\ \A r \in 1..Len(schema.relationships) :
           /\ schema.relationships[r].sourceTable \in TableNames(schema)
           /\ schema.relationships[r].targetTable \in TableNames(schema)

\* C8 witness: normalization has run on an input with a relationship whose
\* source names a built table and whose target names none, next to tables and
\* a relationship that was kept.
C8_Witness ==
    /\ pc = "normalized"
    /\ \E k \in 1..Len(extractedData.relationships) :
         LET rel == extractedData.relationships[k] IN
         /\ NamesBuiltTable(extractedData, endpointName(rel, "sourceEntity", "sourceTable"))
         /\ ~NamesBuiltTable(extractedData, endpointName(rel, "targetEntity", "targetTable"))
    /\ Len(schema.relationships) >= 1
    /\ Len(schema.relationships) < Len(extractedData.relationships)

\* C9: for every identifying relationship from S to T of the normalized schema,
\* T is a weak entity, T has a column S_id that is a foreign key referencing S,
\* a primary key and not nullable, and T has a column partial_id (INTEGER,
\* primary key) exactly when T has no primary-key column other than
\* foreign-key columns.
C9_IdentifyingRelationships ==
    Normalized =>
      \A r \in 1..Len(schema.relationships) :
        LET rel == schema.relationships[r]
            S == rel.sourceTable
            T == TableNamed(schema, rel.targetTable)
        IN rel.isIdentifying =>
           /\ T.isWeakEntity
           /\ \E j \in ColumnsNamed(T, S \o "_id") :
                /\ References(T.columns[j], S)
                /\ IsPK(T.columns[j])
                /\ ~T.columns[j].isNullable
           /\ (\E j \in ColumnsNamed(T, "partial_id") :
                 T.columns[j].dataType = "INTEGER" /\ IsPK(T.columns[j]))
              <=> ~(\E j \in 1..Len(T.columns) :
                      /\ IsPK(T.columns[j])
                      /\ ~IsFK(T.columns[j])
                      /\ T.columns[j].name # "partial_id")

\* C10: table names are unique within the schema returned by generateSchema,
\* for every list of entities whose given names are pairwise different
\* (names differing only in case and several entities without a name included).
C10_TableNamesUnique ==
    (/\ Normalized
     /\ \A i, k \in 1..Len(Arr(extractedData, "entities")) :
          (/\ i # k
           /\ Has(extractedData.entities[i], "name")
           /\ Has(extractedData.entities[k], "name"))
          => extractedData.entities[i].name # extractedData.entities[k].name)
    => \A i, k \in 1..Len(schema.tables) :
         i # k => schema.tables[i].name # schema.tables[k].name

(***************************************************************************)
(* Properties of the Mermaid export                                        *)
(***************************************************************************)
Drawn == pc \in {"drawn", "reformatted"}

\* the lines of a text after its first line
linesAfterFirst(text) == SubSeq(splitLines(text), 2, Len(splitLines(text)))

isCommentOrBlank(line) == trim(line) = "" \/ startsWith(trim(line), "%%")

relationshipLinesOf(text) == Filter(splitLines(text), LAMBDA line : includes(line, "--"))

\* source symbol, target symbol, source name and target name of a relationship
\* line, written "s || -- o{ t" by the service and "s ||--o{ t" by the copy
partsOfLine(line) ==
    LET w == splitWords(trim(line))
    IN IF Len(w) >= 5 /\ w[3] = "--"
       THEN [sourceSymbol |-> w[2], targetSymbol |-> w[4], source |-> w[1], target |-> w[5]]
       ELSE [sourceSymbol |-> SubSeq(w[2], 1, 2), targetSymbol |-> SubSeq(w[2], 5, 6),
             source |-> w[1], target |-> w[3]]

\* the mapping table of the specification; for zero-or-one, whose symbol the
\* specification does not name, Mermaid's symbol or the one of "one"
sourceSymbolsFor(relationship) ==
    IF Has(relationship, "cardinality")
    THEN CASE relationship.cardinality.source = "many" -> {"}o"}
           [] relationship.cardinality.source = "one" -> {"||"}
           [] OTHER -> {"|o", "||"}
    ELSE IF relationship.type \in {"MANY_TO_ONE", "MANY_TO_MANY"} THEN {"}o"} ELSE {"||"}

targetSymbolsFor(relationship) ==
    IF Has(relationship, "cardinality")
    THEN CASE relationship.cardinality.target = "many" -> {"o{"}
           [] relationship.cardinality.target = "one" -> {"||"}
           [] OTHER -> {"o|", "||"}
    ELSE IF relationship.type \in {"ONE_TO_MANY", "MANY_TO_MANY"} THEN {"o{"} ELSE {"||"}

\* C17: the line emitted for each relationship of the schema carries the
\* symbols of its type (ONE_TO_ONE ||,||; ONE_TO_MANY ||,o{; MANY_TO_ONE }o,||;
\* MANY_TO_MANY }o,o{), or those of its explicit cardinality when it has one.
C17_CardinalitySymbols ==
    Drawn =>
      /\ Len(relationshipLinesOf(emitted)) = Len(schema.relationships)
      /\ \A k \in 1..Len(schema.relationships) :
            /\ partsOfLine(relationshipLinesOf(emitted)[k]).sourceSymbol
                  \in sourceSymbolsFor(schema.relationships[k])
            /\ partsOfLine(relationshipLinesOf(emitted)[k]).targetSymbol
                  \in targetSymbolsFor(schema.relationships[k])

\* C17 restricted to the service file
C17_CardinalitySymbolsOfService == build = "service" => C17_CardinalitySymbols

\* C18: the auto-formatter is idempotent on the text the emission produced:
\* formatting the formatted text once more leaves it as it is.
C18_AutoFormatIdempotent == pc = "reformatted" => reformatted = formatted

\* C18 restricted to the service file
C18_AutoFormatIdempotentOfService == build = "service" => C18_AutoFormatIdempotent

\* the lines of a text that are not %% comments
codeLinesOf(text) == Filter(splitLines(text), LAMBDA line : ~startsWith(trim(line), "%%"))

\* the names of the entity blocks of a text: the first word of each line that
\* ends with an opening brace
entityBlockNamesOf(text) ==
    {splitWords(trim(line))[1] :
       line \in {l \in Range(codeLinesOf(text)) : endsWith(trim(l), "{")}}

\* the relationship lines of a returned text
relationshipLinesOfOutput(text) == Filter(codeLinesOf(text), LAMBDA line : includes(line, "--"))

\* every relationship of the schema names tables of the schema
ReferencesResolve ==
    \A k \in 1..Len(schema.relationships) :
      /\ schema.relationships[k].sourceTable \in TableNames(schema)
      /\ schema.relationships[k].targetTable \in TableNames(schema)

\* C19: when the relationships of the schema name tables of the schema, the
\* source and target names on every relationship line of the returned text are
\* names of entity blocks of that text, and the text carries no "undefined
\* source entity" or "undefined target entity" diagnostic.
C19_RelationshipEndsAreDefined ==
    (Drawn /\ ReferencesResolve) =>
      /\ \A k \in 1..Len(relationshipLinesOfOutput(mermaidSyntax)) :
            /\ partsOfLine(relationshipLinesOfOutput(mermaidSyntax)[k]).source
                  \in entityBlockNamesOf(mermaidSyntax)
            /\ partsOfLine(relationshipLinesOfOutput(mermaidSyntax)[k]).target
                  \in entityBlockNamesOf(mermaidSyntax)
      /\ ~includes(mermaidSyntax, "undefined source entity")
      /\ ~includes(mermaidSyntax, "undefined target entity")

\* C19 restricted to the service file
C19_RelationshipEndsAreDefinedOfService == build = "service" => C19_RelationshipEndsAreDefined

\* C19 restricted to the copy
C19_RelationshipEndsAreDefinedOfCopy == build = "copy" => C19_RelationshipEndsAreDefined

RECURSIVE blocksFrom(_, _, _, _)
\* the entity blocks of the lines from line i on: open says that line i is
\* inside the last block of acc
blocksFrom(lines, i, open, acc) ==
    IF i > Len(lines) THEN acc
    ELSE IF endsWith(trim(lines[i]), "{")
    THEN blocksFrom(lines, i + 1, TRUE,
                    Append(acc, [name |-> splitWords(trim(lines[i]))[1], lines |-> <<>>]))
    ELSE IF trim(lines[i]) = "}" THEN blocksFrom(lines, i + 1, FALSE, acc)
    ELSE IF open /\ trim(lines[i]) # ""
    THEN blocksFrom(lines, i + 1, TRUE,
                    [acc EXCEPT ![Len(acc)].lines = Append(@, splitWords(trim(lines[i])))])
    ELSE blocksFrom(lines, i + 1, open, acc)

\* the entity blocks of a returned text, each with the words of its lines
entityBlocksOf(text) == blocksFrom(codeLinesOf(text), 1, FALSE, <<>>)

\* the marker the line of a column is to end with
markerOf(column) ==
    IF IsTrue(column, "isPrimaryKey") THEN <<"PK">>
    ELSE IF IsTrue(column, "isForeignKey") THEN <<"FK">>
    ELSE <<>>

\* C20: the returned text has one entity block per table of the schema, and
\* the block of a table has one attribute line per column of the table, which
\* ends with PK for a primary-key column, with FK for a foreign-key column
\* that is not a primary key, and with no marker for any other column.
C20_OneBlockPerTableOneLinePerColumn ==
    Drawn =>
      /\ Len(entityBlocksOf(mermaidSyntax)) = Len(schema.tables)
      /\ \A i \in 1..Len(schema.tables) :
            /\ Len(entityBlocksOf(mermaidSyntax)[i].lines) = Len(schema.tables[i].columns)
            /\ \A j \in 1..Len(schema.tables[i].columns) :
                  \E l \in 1..Len(entityBlocksOf(mermaidSyntax)[i].lines) :
                    /\ Len(entityBlocksOf(mermaidSyntax)[i].lines[l]) >= 2
                    /\ entityBlocksOf(mermaidSyntax)[i].lines[l][2]
                         = schema.tables[i].columns[j].name
                    /\ SubSeq(entityBlocksOf(mermaidSyntax)[i].lines[l], 3,
                              Len(entityBlocksOf(mermaidSyntax)[i].lines[l]))
                         = markerOf(schema.tables[i].columns[j])

\* C20 restricted to the service file
C20_OneBlockPerTableOneLinePerColumnOfService ==
    build = "service" => C20_OneBlockPerTableOneLinePerColumn

(***************************************************************************)
(* Properties of the requests and the stores                               *)
(***************************************************************************)
\* C22: generateSchema leaves the extraction data it is given as it was: every
\* entity, attribute and relationship object has the fields and values it had
\* before the call.
C22_GenerateSchemaKeepsExtractedData ==
    [][GenerateSchema => extractedData' = extractedData]_vars

\* the ALTER TABLE statements of a statement list, in order
AlterStatementsOf(stmts) == Filter(stmts, LAMBDA st : st.kind = "alter")

\* one ALTER TABLE statement per foreign-key column with references of the
\* working schema, named fk_<table>_<column>, written by backend g
ExpectedAlterStatements(g, sch) ==
    Concat([i \in 1..Len(sch.tables) |->
              LET cols == Filter(sch.tables[i].columns,
                                 LAMBDA c : IsTrue(c, "isForeignKey") /\ Has(c, "references"))
              IN [j \in 1..Len(cols) |->
                    Statement("alter", g, sch.tables[i].name, cols[j].name,
                              "fk_" \o sch.tables[i].name \o "_" \o cols[j].name)]], 1)

\* C26: the statement list holds ALTER TABLE statements exactly when the
\* backend selected is SQLite or SQL Server, then one per foreign-key column
\* with references, named fk_<table>_<column>; and the list is the one the
\* lower-case spelling of the dialect yields for the same schema.
C26_SeparateForeignKeyStatements ==
    Exported =>
      /\ AlterStatementsOf(statements)
           = IF generator \in {"sqlite", "sqlserver"}
             THEN ExpectedAlterStatements(generator, processedSchema)
             ELSE <<>>
      /\ statements = generateSQL("schema" :> schema, "schema", toLowerCase(dialect)).statements

\* the lookup-table condition on a table as the schema holds it
LooksLikeLookupTable(table) ==
    /\ \E j \in 1..Len(table.columns) : IsTrue(table.columns[j], "isPrimaryKey")
    /\ \E j \in 1..Len(table.columns) :
          toLowerCase(table.columns[j].name)
            \in {"name", "title", "label", "value", "code", "key", "shortname", "abbreviation"}
    /\ \/ \E keyword \in {"status", "type", "category", "state", "priority", "role",
                            "permission", "gender", "country", "language"} :
            includes(toLowerCase(table.name), keyword)
       \/ Cardinality({j \in 1..Len(table.columns) :
                         table.columns[j].name \notin {"id", "created_at", "updated_at"}}) <= 3

\* C27: after normalization a table is flagged isLookupTable exactly when its
\* entity was flagged, or it has a primary key, a name-like or code-like
\* column, and a lookup keyword in its name or at most 3 non-system columns;
\* detecting again on the table changes none of its columns.
C27_LookupTableDetection ==
    Normalized =>
      /\ Len(schema.tables) = Len(extractedData.entities)
      /\ \A i \in 1..Len(schema.tables) :
            /\ schema.tables[i].isLookupTable
                 = (\/ IsTrue(extractedData.entities[i], "isLookupTable")
                    \/ LooksLikeLookupTable(schema.tables[i]))
            /\ detectLookupTable([schema.tables[i] EXCEPT !.isLookupTable = FALSE]).columns
                 = schema.tables[i].columns

C27_Witness ==
    /\ Normalized
    /\ Len(schema.tables) = 2
    /\ schema.tables[1].name = "user_role"
    /\ schema.tables[1].isLookupTable
    /\ Len(schema.tables[1].columns) > 6
    /\ schema.tables[2].name = "big"
    /\ ~schema.tables[2].isLookupTable

\* C28: column names are unique within every table of a normalized schema.
C28_ColumnNamesUnique ==
    Normalized =>
      \A i \in 1..Len(schema.tables) :
        \A j, k \in 1..Len(schema.tables[i].columns) :
          j # k => schema.tables[i].columns[j].name # schema.tables[i].columns[k].name

\* C25: a schema the schema-generation request saved is stored verbatim:
\* getSchemaById, asked for the id that request answered with, returns the
\* name, description, tables, relationships, version, createdAt and updatedAt
\* of the schema the normalizer returned.
StoredFields == {"name", "description", "tables", "relationships", "version",
                 "createdAt", "updatedAt"}

C25_StoredVerbatim ==
    [][ /\ response.handler = "generateSchema"
        /\ \E id \in StoreIds : GetSchemaById(id) /\ id = response.schema._id
        => \A f \in StoredFields :
             /\ Has(response'.schema, f)
             /\ response'.schema[f] = JSONCopy(schema)[f] ]_vars

\* C30: every stored schema has the _id it is stored under, and a schema
\* getSchemaById(k) returns has _id k.
C30_IdsAreKeys ==
    /\ \A k \in DOMAIN schemas : schemas[k]._id = k
    /\ (response.handler = "getSchemaById" /\ response.status = 200)
         => response.schema._id = response.id

\* what a Markdown document and an HTML document state about the schema
markdownEntityClass(text) ==
    CASE text = "**Entity Type:** Weak Entity *(depends on another entity for identification)*"
           -> "weak"
      [] text = "**Entity Type:** Lookup/Reference Table" -> "lookup"
      [] text = "**Entity Type:** Strong Entity" -> "strong"
      [] OTHER -> "?"

htmlEntityClass(class) ==
    CASE class = "table-container weak-entity" -> "weak"
      [] class = "table-container lookup-table" -> "lookup"
      [] class = "table-container strong-entity" -> "strong"
      [] OTHER -> "?"

columnFacts(cells, marked(_)) ==
    [name |-> cells[1], dataType |-> cells[2], primaryKey |-> marked(cells[3]),
     foreignKey |-> marked(cells[4]), nullable |-> marked(cells[5]),
     unique |-> marked(cells[6]), default |-> cells[7]]

relationshipFacts(cells, type, marked(_)) ==
    [source |-> cells[1], name |-> cells[2], target |-> cells[3], type |-> type,
     sourceCardinality |-> cells[5], targetCardinality |-> cells[6],
     identifying |-> marked(cells[7])]

MarkdownMarked(cell) == cell = CheckMark
HtmlMarked(cell) == cell = "<span class=\"text-success\">" \o CheckMark \o "</span>"

\* the text between the first ">" and the last "<" of a span element
RECURSIVE spanText(_)
spanText(s) ==
    IF s = "" THEN ""
    ELSE IF Char(s, 1) = ">" THEN SubSeq(s, 2, Len(s) - Len("</span>"))
         ELSE spanText(SubSeq(s, 2, Len(s)))

FactsOfMarkdown(doc) ==
    [tables |-> [i \in 1..Len(doc.tables) |->
                   [class |-> markdownEntityClass(doc.tables[i].entityType),
                    columns |-> [j \in 1..Len(doc.tables[i].columns) |->
                                   columnFacts(doc.tables[i].columns[j], MarkdownMarked)],
                    foreignKeys |-> doc.tables[i].foreignKeys]],
     relationships |-> [i \in 1..Len(doc.relationships) |->
                          relationshipFacts(doc.relationships[i], doc.relationships[i][4],
                                            MarkdownMarked)],
     relationshipAttributes |-> doc.relationshipAttributes]

FactsOfHtml(doc) ==
    [tables |-> [i \in 1..Len(doc.tables) |->
                   [class |-> htmlEntityClass(doc.tables[i].class),
                    columns |-> [j \in 1..Len(doc.tables[i].columns) |->
                                   columnFacts(doc.tables[i].columns[j].cells, HtmlMarked)],
                    foreignKeys |-> doc.tables[i].foreignKeys]],
     relationships |-> [i \in 1..Len(doc.relationships) |->
                          relationshipFacts(doc.relationships[i],
                                            spanText(doc.relationships[i][4]), HtmlMarked)],
     relationshipAttributes |-> doc.relationshipAttributes]

MarkdownRequest == [handler |-> "generateDocumentation", option |-> "markdown"]
HtmlRequest == [handler |-> "generateDocumentation", option |-> "html"]
Answered(k) == k \in DOMAIN requests /\ requests[k].pc = "done"

\* C21: the Markdown document and the HTML document of one schema state the
\* same facts: the entity-type class of every table, the primary-key,
\* foreign-key, nullable and unique flags and the default of every column,
\* the foreign-key reference rows, the relationship rows (source, name,
\* target, type, cardinalities, identifying flag) and the rows of the
\* relationship attributes.
C21_RenderersStateTheSameFacts ==
    (Answered(MarkdownRequest) /\ Answered(HtmlRequest))
      => FactsOfMarkdown(requests[MarkdownRequest].response.documentation)
           = FactsOfHtml(requests[HtmlRequest].response.documentation)

\* both documents were written for a schema with a weak entity, a lookup
\* table, a foreign key with its reference, and a relationship whose
\* cardinality is derived from its type
C21_Witness ==
    /\ Answered(MarkdownRequest) /\ Answered(HtmlRequest)
    /\ \E t \in 1..Len(schemas["1"].tables) : schemas["1"].tables[t].isWeakEntity
    /\ \E t \in 1..Len(schemas["1"].tables) : schemas["1"].tables[t].isLookupTable
    /\ \E t \in 1..Len(schemas["1"].tables) :
         Len(requests[HtmlRequest].response.documentation.tables[t].foreignKeys) > 0
    /\ \E r \in 1..Len(schemas["1"].relationships) :
         /\ Falsy(Str(schemas["1"].relationships[r], "sourceCardinality"))
         /\ requests[MarkdownRequest].response.documentation.relationships[r][5] = "1"

\* C23: whatever way the handlers of the SQL, diagram and documentation
\* requests in flight interleave, every request that was answered got the
\* response it gets when it is the only request, and the stored schemas are
\* what they were when the requests arrived.
C23_ConcurrentExportsDoNotInterfere ==
    /\ \A k \in DOMAIN requests : Answered(k) => requests[k].response = alone[k]
    /\ schemas = before

MysqlRequest == [handler |-> "generateSQL", option |-> "mysql"]
DiagramRequest == [handler |-> "generateMermaidERD", option |-> ""]

\* a schema with a many-to-many relationship between two of its tables
\* (generateSQL then adds a junction table to its working schema)
HasResolvedManyToMany(stored) ==
    \E r \in 1..Len(stored.relationships) :
      /\ stored.relationships[r].type = "MANY_TO_MANY"
      /\ \E t \in 1..Len(stored.tables) :
           stored.tables[t].name = stored.relationships[r].sourceTable
      /\ \E t \in 1..Len(stored.tables) :
           stored.tables[t].name = stored.relationships[r].targetTable

\* the SQL request and the diagram request were both answered for such a
\* schema, the SQL holding the junction table the preprocessor added
C23_Witness ==
    /\ Answered(MysqlRequest) /\ Answered(DiagramRequest)
    /\ HasResolvedManyToMany(before["1"])
    /\ requests[MysqlRequest].response.status = 200
    /\ \E i \in 1..Len(requests[MysqlRequest].response.sql.statements) :
         requests[MysqlRequest].response.sql.statements[i].table = "s_t"
    /\ requests[DiagramRequest].response.status = 200

\* a schema with a many-to-many relationship whose source or target table
\* is not among its tables
HasDanglingManyToMany(stored) ==
    \E r \in 1..Len(stored.relationships) :
      /\ stored.relationships[r].type = "MANY_TO_MANY"
      /\ \/ \A t \in 1..Len(stored.tables) :
              stored.tables[t].name # stored.relationships[r].sourceTable
         \/ \A t \in 1..Len(stored.tables) :
              stored.tables[t].name # stored.relationships[r].targetTable

\* C24: SQL generation for a schema in which a many-to-many relationship
\* names a table the schema does not have fails with an exception (the
\* handler answers 500) and returns no SQL.
C24_MissingTableFails ==
    \A k \in DOMAIN requests :
      (k.handler = "generateSQL" /\ Answered(k) /\ HasDanglingManyToMany(before["1"]))
        => (requests[k].response.status = 500 /\ ~Has(requests[k].response, "sql"))

\* the ids of the schema objects a response lists for its session
returnedSchemas(resp) ==
    [i \in 1..Len(resp.session.schemas) |->
       IF resp.session.schemas[i].type = "object"
       THEN resp.session.schemas[i].value._id ELSE ""]

\* C29: getSessionById returns every schema that was attached to the
\* session, when it was created or by saveSession, exactly once, and the
\* schema saved last as the active schema (no request deletes a schema).
C29_SessionReadsAreStable ==
    (response.handler = "getSessionById" /\ response.status = 200)
      => /\ {returnedSchemas(response)[i] : i \in 1..Len(returnedSchemas(response))}
              = attached[response.id].schemas
         /\ Len(returnedSchemas(response)) = Cardinality(attached[response.id].schemas)
         /\ IF attached[response.id].active = ""
            THEN response.session.activeSchemaId = NullValue
            ELSE /\ response.session.activeSchemaId.type = "object"
                 /\ response.session.activeSchemaId.value._id
                      = attached[response.id].active

=============================================================================
